---------------------------- MODULE Spec2Model ----------------------------
(***************************************************************************)
(* A model of the llm-proxy-rs translation engine:                         *)
(*   - the request translation of chat/src/bedrock.rs, with the            *)
(*     conversions of request/src/lib.rs it calls;                         *)
(*   - the Bedrock provider of chat/src/providers.rs: the backend call and *)
(*     the loop that turns backend stream events into SSE items, with the  *)
(*     event translation of response/src/lib.rs;                           *)
(*   - the HTTP handler of server/src/main.rs, which routes a request to   *)
(*     a provider and answers with an SSE stream;                          *)
(*   - the OpenAI provider of chat/src/providers.rs: the loop that cuts    *)
(*     the foreign provider's byte stream into lines and re-emits them.    *)
(*                                                                         *)
(* Rust values are modelled as records.  Option<T> is NoneVal or Some(x),  *)
(* Result<T, E> is Ok(x) or Err(e), an enum value carries its variant in   *)
(* the field t.                                                            *)
(***************************************************************************)
EXTENDS Integers, Sequences, FiniteSets, TLC

VARIABLES
    request,               \* the ChatCompletionsRequest being handled
    i,                     \* number of request messages the loop has consumed
    system_content_blocks, \* bedrock.rs:20
    messages,              \* bedrock.rs:21
    origin,                \* history: origin[k] is the index of the request
                           \* message that messages[k] was built from
    result,                \* "running", "ok" or "err": the translation's outcome
    error,                 \* the error text when result = "err"
    tool_config,           \* bedrock.rs:122, Option<ToolConfiguration>
    call,                  \* the ConverseStream call made by the provider
    pc,                    \* where the provider's response stream stands:
                           \* "idle" (not opened), "recv" (awaiting the next
                           \* backend event), "yield" (an item is being handed
                           \* to the consumer), "end" (the stream has ended),
                           \* "dropped" (the consumer has dropped the stream);
                           \* for the OpenAI provider's stream: "read"
                           \* (awaiting the next byte chunk) or "end"
    id,                    \* providers.rs:100, fixed when the stream opens
    created,               \* providers.rs:101, fixed when the stream opens
    received,              \* history: the backend events received, in order
    recv_errors,           \* history: the number of receive errors
    pending,               \* the item being yielded when pc = "yield"
    out,                   \* the items the consumer was handed, in order
    usage_calls,           \* the arguments of the usage callback's calls
    hpc,                   \* where the HTTP handler of server/src/main.rs
                           \* stands: "library" (the provider is used without
                           \* the server), "handler", "responded", "stream",
                           \* "provider", "provider_ok", "provider_err",
                           \* "forwarding", "closed"
    status,                \* the status code of the HTTP response, once sent
    body,                  \* the text of an error response
    sse,                   \* the items handed to the HTTP layer's SSE stream
    upstream,              \* passthrough: the bytes of the foreign provider's
                           \* response body that have not arrived yet
    delivered,             \* history: the bytes of all byte chunks received
    appended,              \* history: the bytes pushed to line_buffer
    line_buffer            \* providers.rs:321

translation_vars == <<request, i, system_content_blocks, messages, origin,
                      result, error, tool_config, call>>
stream_vars == <<pc, id, created, received, recv_errors, pending, out, usage_calls>>
server_vars == <<hpc, status, body, sse>>
rechunk_vars == <<upstream, delivered, appended, line_buffer>>
vars == <<translation_vars, stream_vars, server_vars, rechunk_vars>>

---------------------------------------------------------------------------
(* Bounds of the model.                                                    *)

MaxMsgs == 2
MaxCalls == 2
MaxEvents == 3

---------------------------------------------------------------------------
(* Option and Result.                                                      *)

NoneVal == [t |-> "None"]
Some(x) == [t |-> "Some", v |-> x]
IsSome(o) == o.t = "Some"
IsNone(o) == o.t = "None"

Ok(x) == [ok |-> TRUE, v |-> x]
Err(e) == [ok |-> FALSE, e |-> e]

---------------------------------------------------------------------------
(* JSON values (serde_json::Value) and documents (aws_smithy_types).  A    *)
(* number keeps the representation serde_json parsed it into: PosInt for a *)
(* non-negative integer (u64), NegInt for a negative one (i64), Float.     *)
(* The 64-bit widths are scaled to 4 bits.                                 *)

I64_MAX == 7

JNull == [t |-> "Null"]
JBool(b) == [t |-> "Bool", b |-> b]
JNumber(k, v) == [t |-> "Number", k |-> k, v |-> v]
JString(s) == [t |-> "String", s |-> s]
JArray(a) == [t |-> "Array", a |-> a]
JObject(o) == [t |-> "Object", o |-> o]

\* serde_json::Number::as_i64: the value when it fits a signed integer.
as_i64(n) ==
    IF n.k = "NegInt" THEN Some(n.v)
    ELSE IF n.k = "PosInt" /\ n.v <= I64_MAX THEN Some(n.v)
    ELSE NoneVal

\* request/src/lib.rs value_to_document.  An object is a set of
\* <<key, value>> pairs, an array a sequence.
RECURSIVE value_to_document(_)
value_to_document(value) ==
    CASE value.t = "Null" -> JNull
      [] value.t = "Bool" -> JBool(value.b)
      [] value.t = "Number" ->
            LET n == as_i64(value) IN
            IF IsSome(n)
            THEN (IF n.v >= 0 THEN JNumber("PosInt", n.v) ELSE JNumber("NegInt", n.v))
            ELSE JNumber("Float", value.v)
      [] value.t = "String" -> JString(value.s)
      [] value.t = "Array" ->
            JArray([k \in 1..Len(value.a) |-> value_to_document(value.a[k])])
      [] value.t = "Object" ->
            JObject({<<kv[1], value_to_document(kv[2])>> : kv \in value.o})

\* A variant of the copy that makes a float of every number.
RECURSIVE bedrock_value_to_document_floats(_)
bedrock_value_to_document_floats(value) ==
    CASE value.t = "Null" -> JNull
      [] value.t = "Bool" -> JBool(value.b)
      [] value.t = "Number" -> JNumber("Float", value.v)
      [] value.t = "String" -> JString(value.s)
      [] value.t = "Array" ->
            JArray([k \in 1..Len(value.a) |->
                        bedrock_value_to_document_floats(value.a[k])])
      [] value.t = "Object" ->
            JObject({<<kv[1], bedrock_value_to_document_floats(kv[2])>>
                        : kv \in value.o})

\* chat/src/bedrock.rs value_to_document, the copy used for tool schemas.
RECURSIVE bedrock_value_to_document(_)
bedrock_value_to_document(value) ==
    CASE value.t = "Null" -> JNull
      [] value.t = "Bool" -> JBool(value.b)
      [] value.t = "Number" ->
            LET n == as_i64(value) IN
            IF IsSome(n)
            THEN (IF n.v >= 0 THEN JNumber("PosInt", n.v) ELSE JNumber("NegInt", n.v))
            ELSE JNumber("Float", value.v)
      [] value.t = "String" -> JString(value.s)
      [] value.t = "Array" ->
            JArray([k \in 1..Len(value.a) |-> bedrock_value_to_document(value.a[k])])
      [] value.t = "Object" ->
            JObject({<<kv[1], bedrock_value_to_document(kv[2])>> : kv \in value.o})

\* An arguments text with the integer above the signed maximum (2^63, which
\* is 8 at the scaled width), a negative integer and a non-integral number.
NumbersText == "[9223372036854775808,-1,1.5]"

\* serde_json::from_str on the argument strings the model draws from: the
\* JSON texts parse to their value, anything else is a parse error.
from_str(s) ==
    CASE s = "{}" -> Ok(JObject({}))
      [] s = NumbersText ->
            Ok(JArray(<<JNumber("PosInt", I64_MAX + 1), JNumber("NegInt", -1),
                        JNumber("Float", "1.5")>>))
      [] s = "{\"n\":1}" -> Ok(JObject({<<"n", JNumber("PosInt", 1)>>}))
      [] s = "[true,null]" -> Ok(JArray(<<JBool(TRUE), JNull>>))
      [] OTHER -> Err("expected value")

EmptyObject == JObject({})

---------------------------------------------------------------------------
(* request/src/lib.rs: the content model and its conversions.              *)

ContentsString(s) == [t |-> "String", s |-> s]
ContentsArray(a) == [t |-> "Array", a |-> a]
ContentText(text) == [t |-> "Text", text |-> text]

\* Contents::is_empty
is_empty(contents) ==
    IF contents.t = "String" THEN contents.s = "" ELSE contents.a = <<>>

\* Bedrock content blocks.
TextBlock(text) == [t |-> "Text", text |-> text]
ToolUseBlock(tool_use_id, name, input) ==
    [t |-> "ToolUse", tool_use_id |-> tool_use_id, name |-> name, input |-> input]
ToolResultBlock(tool_use_id, content) ==
    [t |-> "ToolResult", tool_use_id |-> tool_use_id, content |-> content]
BedrockMessage(role, content) == [role |-> role, content |-> content]

\* From<&Contents> for Vec<ContentBlock>
ContentsToContentBlocks(contents) ==
    IF contents.t = "Array"
    THEN [k \in 1..Len(contents.a) |-> TextBlock(contents.a[k].text)]
    ELSE <<TextBlock(contents.s)>>

\* From<&Contents> for Vec<SystemContentBlock>
ContentsToSystemContentBlocks(contents) ==
    IF contents.t = "Array"
    THEN [k \in 1..Len(contents.a) |-> TextBlock(contents.a[k].text)]
    ELSE <<TextBlock(contents.s)>>

\* TryFrom<&Contents> for Vec<ToolResultContentBlock>
ContentsToToolResultContentBlocks(contents) ==
    IF is_empty(contents) THEN Err("Tool message contents cannot be empty")
    ELSE IF contents.t = "String" THEN Ok(<<TextBlock(contents.s)>>)
    ELSE Ok([k \in 1..Len(contents.a) |-> TextBlock(contents.a[k].text)])

\* A variant that propagates the parse error instead of substituting.
ToolUseBlockTryFromStrict(tool_call) ==
    LET parsed == from_str(tool_call.function.arguments) IN
    IF parsed.ok
    THEN Ok(ToolUseBlock(tool_call.id, tool_call.function.name,
                         value_to_document(parsed.v)))
    ELSE Err("Failed to parse tool arguments")

\* TryFrom<&OpenAIToolCall> for ToolUseBlock: arguments that do not parse
\* are replaced by an empty object.
ToolUseBlockTryFrom(tool_call) ==
    LET parsed == from_str(tool_call.function.arguments)
        input == IF parsed.ok THEN value_to_document(parsed.v) ELSE EmptyObject
    IN  Ok(ToolUseBlock(tool_call.id, tool_call.function.name, input))

\* TryFrom<&Message> for ToolResultBlock
ToolResultBlockTryFrom(message) ==
    IF IsNone(message.contents) THEN Err("Tool message must have contents")
    ELSE IF IsNone(message.tool_call_id) THEN Err("Tool message must have tool_call_id")
    ELSE LET blocks == ContentsToToolResultContentBlocks(message.contents.v) IN
         IF ~blocks.ok THEN blocks
         ELSE Ok(ToolResultBlock(message.tool_call_id.v, blocks.v))

\* The tool-use blocks of a list of calls, in order, or the first error.
RECURSIVE ToolUseBlocks(_)
ToolUseBlocks(tool_calls) ==
    IF tool_calls = <<>> THEN Ok(<<>>)
    ELSE LET head == ToolUseBlockTryFrom(Head(tool_calls)) IN
         IF ~head.ok THEN head
         ELSE LET rest == ToolUseBlocks(Tail(tool_calls)) IN
              IF ~rest.ok THEN rest ELSE Ok(<<head.v>> \o rest.v)

\* aws_sdk_bedrockruntime Message::builder().build(): role and content are
\* required; a content that was never set fails the build.
MessageBuild(role, content) ==
    IF IsNone(content) THEN Err("content was not specified but it is required when building Message")
    ELSE Ok(BedrockMessage(role, content.v))

\* TryFrom<&Message> for aws_sdk_bedrockruntime::types::Message
MessageTryFrom(message) ==
    CASE message.role = "assistant" ->
            LET content_blocks ==
                    IF IsSome(message.contents)
                    THEN ContentsToContentBlocks(message.contents.v)
                    ELSE <<>>
                uses == IF IsSome(message.tool_calls)
                        THEN ToolUseBlocks(message.tool_calls.v)
                        ELSE Ok(<<>>)
            IN  IF ~uses.ok THEN uses
                ELSE MessageBuild("assistant", Some(content_blocks \o uses.v))
      [] message.role = "tool" ->
            LET tool_result == ToolResultBlockTryFrom(message) IN
            IF ~tool_result.ok THEN tool_result
            ELSE MessageBuild("user", Some(<<tool_result.v>>))
      [] OTHER ->
            MessageBuild("user",
                IF IsSome(message.contents)
                THEN Some(ContentsToContentBlocks(message.contents.v))
                ELSE NoneVal)

---------------------------------------------------------------------------
(* chat/src/bedrock.rs: the request translation.                           *)

ToolUsageSuffix ==
    " IMPORTANT: Always use the available functions when appropriate. For time queries, use get_current_time. For fibonacci calculations, use fibonacci."
ToolUsageBlock ==
    "IMPORTANT: Always use the available functions when appropriate. For time queries, use get_current_time. For fibonacci calculations, use fibonacci."

\* [a, b, c].join(sep)
RECURSIVE Join(_, _)
Join(strs, sep) ==
    IF strs = <<>> THEN ""
    ELSE IF Len(strs) = 1 THEN strs[1]
    ELSE strs[1] \o sep \o Join(Tail(strs), sep)

\* The Role::System arm: the system blocks one System message contributes.
\* When the request declares tools a string is replaced by the string with
\* the tool-usage text appended, and a block list is followed by a second
\* copy of its blocks and by one tool-usage block.
SystemBlocksOf(contents, has_tools) ==
    LET new_system_content_blocks == ContentsToSystemContentBlocks(contents) IN
    IF ~has_tools THEN new_system_content_blocks
    ELSE IF contents.t = "String"
         THEN <<TextBlock(contents.s \o ToolUsageSuffix)>>
         ELSE new_system_content_blocks
                \o ContentsToSystemContentBlocks(contents)
                \o <<TextBlock(ToolUsageBlock)>>

\* A variant that puts a message's blocks before the earlier ones.
ExtendSystemBlocksInFront(blocks, new_blocks) == new_blocks \o blocks

\* system_content_blocks.extend(new_system_content_blocks)
ExtendSystemBlocks(blocks, new_blocks) == blocks \o new_blocks

\* A variant that joins the texts of a block list without a separator.
FormattedToolResultPacked(contents) ==
    IF contents.t = "String"
    THEN "Function result: " \o contents.s
    ELSE "Function result: "
            \o Join([k \in 1..Len(contents.a) |-> contents.a[k].text], "")

\* The Role::Tool arm: the text of the user message a tool result becomes.
FormattedToolResult(contents) ==
    IF contents.t = "String"
    THEN "Function result: " \o contents.s
    ELSE "Function result: "
            \o Join([k \in 1..Len(contents.a) |-> contents.a[k].text], " ")

\* The Role::Tool arm's message: a user message with one text block.
ToolResultMessage(contents) ==
    MessageBuild("user", Some(<<TextBlock(FormattedToolResult(contents))>>))

\* A variant of the test that skips no message.
SkipsNoAssistant(message) == FALSE

\* The test that skips an assistant message with tool calls and no text.
SkipsAssistant(message) ==
    /\ message.role = "assistant"
    /\ IsSome(message.tool_calls)
    /\ \/ IsNone(message.contents)
       \/ (message.contents.v.t = "String" /\ message.contents.v.s = "")

\* Bedrock tool choices.
AnyToolChoice == [t |-> "Any"]
AutoToolChoice == [t |-> "Auto"]
SpecificToolChoice(name) == [t |-> "Tool", name |-> name]

\* A variant without the "none" arm: "none" falls through to auto.
BedrockToolChoiceNoNone(openai_tool_choice) ==
    IF IsSome(openai_tool_choice)
    THEN IF openai_tool_choice.v.t = "String"
         THEN CASE openai_tool_choice.v.s = "required" -> Some(AnyToolChoice)
                [] OTHER -> Some(AutoToolChoice)
         ELSE Some(SpecificToolChoice(openai_tool_choice.v.function.name))
    ELSE Some(AutoToolChoice)

\* The match on tool_choice of openai_tools_to_bedrock_tool_config.
BedrockToolChoice(openai_tool_choice) ==
    IF IsSome(openai_tool_choice)
    THEN IF openai_tool_choice.v.t = "String"
         THEN CASE openai_tool_choice.v.s = "none" -> NoneVal
                [] openai_tool_choice.v.s = "required" -> Some(AnyToolChoice)
                [] OTHER -> Some(AutoToolChoice)
         ELSE Some(SpecificToolChoice(openai_tool_choice.v.function.name))
    ELSE Some(AutoToolChoice)

\* ToolSpecification of one OpenAI tool.
ToolSpec(openai_tool) ==
    [name |-> openai_tool.function.name,
     description |-> openai_tool.function.description,
     input_schema |-> bedrock_value_to_document(openai_tool.function.parameters)]

\* openai_tools_to_bedrock_tool_config.  ToolConfiguration's builder needs
\* the tools field set: with no tool added the build fails.
openai_tools_to_bedrock_tool_config(openai_tools, openai_tool_choice) ==
    IF openai_tools = <<>>
    THEN Err("tools was not specified but it is required when building ToolConfiguration")
    ELSE Ok([tools |-> [k \in 1..Len(openai_tools) |-> ToolSpec(openai_tools[k])],
             tool_choice |-> BedrockToolChoice(openai_tool_choice)])

---------------------------------------------------------------------------
(* The requests the model draws from.                                      *)

Message(role, contents, tool_calls, tool_call_id) ==
    [role |-> role, contents |-> contents, tool_calls |-> tool_calls,
     tool_call_id |-> tool_call_id]

TextAB == ContentsArray(<<ContentText("a"), ContentText("b")>>)

\* The k-th tool call of a message, with the given arguments text.
CallIds == <<"call_1", "call_2", "call_3", "call_4">>
CallNames == <<"get_current_time", "fibonacci", "fibonacci", "get_current_time">>
OpenAIToolCall(k, arguments) ==
    [id |-> CallIds[k], tool_type |-> "function",
     function |-> [name |-> CallNames[k], arguments |-> arguments]]

\* Lists of at most MaxCalls calls in which at most one call has arguments
\* that do not parse.
ToolCallLists ==
    UNION {
        {[k \in 1..n |-> OpenAIToolCall(k, IF k = bad THEN "nope" ELSE "{\"n\":1}")]
            : bad \in 0..n}
        : n \in 0..MaxCalls}

\* The longest list, with arguments that do not parse in its first call.
FullCallList ==
    [k \in 1..MaxCalls |-> OpenAIToolCall(k, IF k = 1 THEN "nope" ELSE "{\"n\":1}")]

SystemMessages ==
    {Message("system", c, NoneVal, NoneVal)
        : c \in {NoneVal, Some(ContentsString("sys")), Some(TextAB)}}

UserMessages ==
    {Message("user", c, NoneVal, NoneVal)
        : c \in {NoneVal, Some(ContentsString("hi")), Some(TextAB)}}

ToolMessages ==
    {Message("tool", c, NoneVal, tool_call_id)
        : c \in {NoneVal, Some(ContentsString("42")), Some(TextAB)},
          tool_call_id \in {NoneVal, Some("call_1")}}

\* Assistant messages: without tool calls; with every kind of content and
\* the empty or the longest call list; with a text and every call list.
AssistantMessages ==
    {Message("assistant", c, NoneVal, NoneVal)
        : c \in {NoneVal, Some(ContentsString("hi"))}}
    \cup
    {Message("assistant", c, Some(calls), NoneVal)
        : c \in {NoneVal, Some(ContentsString("")), Some(ContentsString("hi")),
                 Some(ContentsArray(<<>>)), Some(TextAB)},
          calls \in {<<>>, FullCallList}}
    \cup
    {Message("assistant", Some(ContentsString("hi")), Some(calls), NoneVal)
        : calls \in ToolCallLists}
    \cup
    {Message("assistant", Some(ContentsString("hi")),
             Some(<<OpenAIToolCall(1, NumbersText)>>), NoneVal)}

Messages == SystemMessages \cup UserMessages \cup ToolMessages \cup AssistantMessages

\* The parameter schemas of the tools: a bare object schema, and one with
\* numbers of every kind, a flag, a null and a list.
ToolParameters(name) ==
    IF name = "fibonacci"
    THEN JObject({<<"type", JString("object")>>,
                  <<"minimum", JNumber("NegInt", -1)>>,
                  <<"maximum", JNumber("PosInt", I64_MAX + 1)>>,
                  <<"default", JNumber("PosInt", 1)>>,
                  <<"multipleOf", JNumber("Float", "1.5")>>,
                  <<"nullable", JBool(TRUE)>>,
                  <<"example", JNull>>,
                  <<"required", JArray(<<JString("n")>>)>>})
    ELSE JObject({<<"type", JString("object")>>})

OpenAITool(name, description) ==
    [tool_type |-> "function",
     function |-> [name |-> name, description |-> description,
                   parameters |-> ToolParameters(name)]]

ToolLists ==
    {NoneVal, Some(<<>>),
     Some(<<OpenAITool("get_current_time", NoneVal),
            OpenAITool("fibonacci", Some("nth fibonacci number"))>>)}

ToolChoiceString(s) == [t |-> "String", s |-> s]
ToolChoiceObject(name) ==
    [t |-> "Object", tool_type |-> "function", function |-> [name |-> name]]

ToolChoices ==
    {NoneVal, Some(ToolChoiceString("none")), Some(ToolChoiceString("required")),
     Some(ToolChoiceString("auto")), Some(ToolChoiceString("any")),
     Some(ToolChoiceObject("fibonacci"))}

ToolChoicesFor(tools) ==
    IF IsNone(tools) THEN {NoneVal, Some(ToolChoiceString("required"))}
    ELSE IF tools.v = <<>> THEN {NoneVal}
    ELSE ToolChoices

\* A request: at most MaxMsgs messages, and tool_choice in all its forms
\* when tools are declared.
IsRequest(r) ==
    \E n \in 0..MaxMsgs :
        \E ms \in [1..n -> Messages], ts \in ToolLists :
            \E tc \in ToolChoicesFor(ts) :
                r = [model |-> "anthropic.claude-3", messages |-> ms,
                     tools |-> ts, tool_choice |-> tc]

---------------------------------------------------------------------------
(* The state machine.                                                      *)

Init ==
    /\ IsRequest(request)
    /\ i = 0
    /\ system_content_blocks = <<>>
    /\ messages = <<>>
    /\ origin = <<>>
    /\ result = "running"
    /\ error = ""
    /\ tool_config = NoneVal
    /\ call = NoneVal
    /\ pc = "idle"
    /\ id = ""
    /\ created = 0
    /\ received = <<>>
    /\ recv_errors = 0
    /\ pending = NoneVal
    /\ out = <<>>
    /\ usage_calls = <<>>
    /\ hpc = "library"
    /\ status = NoneVal
    /\ body = ""
    /\ sse = <<>>
    /\ upstream = <<>>
    /\ delivered = <<>>
    /\ appended = <<>>
    /\ line_buffer = <<>>

InLoop == result = "running" /\ i < Len(request.messages)
request_message == request.messages[i + 1]

\* One iteration of the loop on an Assistant or User message.
ProcessAssistantOrUser ==
    /\ InLoop
    /\ request_message.role \in {"assistant", "user"}
    /\ IF SkipsAssistant(request_message)
       THEN /\ i' = i + 1
            /\ UNCHANGED <<messages, origin, result, error>>
       ELSE LET converted == MessageTryFrom(request_message) IN
            IF converted.ok
            THEN /\ messages' = Append(messages, converted.v)
                 /\ origin' = Append(origin, i + 1)
                 /\ i' = i + 1
                 /\ UNCHANGED <<result, error>>
            ELSE /\ result' = "err"
                 /\ error' = converted.e
                 /\ UNCHANGED <<messages, origin, i>>
    /\ UNCHANGED <<request, system_content_blocks, tool_config, call>>
    /\ UNCHANGED stream_vars
    /\ UNCHANGED server_vars
    /\ UNCHANGED rechunk_vars

\* One iteration of the loop on a System message.
ProcessSystem ==
    /\ InLoop
    /\ request_message.role = "system"
    /\ system_content_blocks' =
          IF IsSome(request_message.contents)
          THEN ExtendSystemBlocks(system_content_blocks,
                   SystemBlocksOf(request_message.contents.v, IsSome(request.tools)))
          ELSE system_content_blocks
    /\ i' = i + 1
    /\ UNCHANGED <<request, messages, origin, result, error, tool_config, call>>
    /\ UNCHANGED stream_vars
    /\ UNCHANGED server_vars
    /\ UNCHANGED rechunk_vars

\* One iteration of the loop on a Tool message.
ProcessTool ==
    /\ InLoop
    /\ request_message.role = "tool"
    /\ IF IsSome(request_message.contents)
       THEN LET built == ToolResultMessage(request_message.contents.v) IN
            IF built.ok
            THEN /\ messages' = Append(messages, built.v)
                 /\ origin' = Append(origin, i + 1)
                 /\ i' = i + 1
                 /\ UNCHANGED <<result, error>>
            ELSE /\ result' = "err"
                 /\ error' = "Failed to build tool result message"
                 /\ UNCHANGED <<messages, origin, i>>
       ELSE /\ i' = i + 1
            /\ UNCHANGED <<messages, origin, result, error>>
    /\ UNCHANGED <<request, system_content_blocks, tool_config, call>>
    /\ UNCHANGED stream_vars
    /\ UNCHANGED server_vars
    /\ UNCHANGED rechunk_vars

\* After the loop: the tool configuration, and the function's return.
BuildToolConfig ==
    /\ result = "running"
    /\ i = Len(request.messages)
    /\ IF IsSome(request.tools)
       THEN LET built == openai_tools_to_bedrock_tool_config(
                             request.tools.v, request.tool_choice) IN
            IF built.ok
            THEN /\ tool_config' = Some(built.v)
                 /\ result' = "ok"
                 /\ UNCHANGED error
            ELSE /\ result' = "err"
                 /\ error' = built.e
                 /\ UNCHANGED tool_config
       ELSE /\ tool_config' = NoneVal
            /\ result' = "ok"
            /\ UNCHANGED error
    /\ UNCHANGED <<request, i, system_content_blocks, messages, origin, call>>
    /\ UNCHANGED stream_vars
    /\ UNCHANGED server_vars
    /\ UNCHANGED rechunk_vars

\* BedrockChatCompletionsProvider::chat_completions_stream, up to send():
\* the ConverseStream call is built from the model id, the system blocks and
\* the messages; its tool configuration is never set.
ConverseStreamInput(model_id, system, msgs, config) ==
    [model_id |-> model_id, system |-> Some(system), messages |-> Some(msgs),
     tool_config |-> NoneVal]

ConverseStream ==
    /\ result = "ok"
    /\ IsNone(call)
    /\ call' = Some(ConverseStreamInput(request.model, system_content_blocks,
                                        messages, tool_config))
    /\ UNCHANGED <<request, i, system_content_blocks, messages, origin, result,
                   error, tool_config>>
    /\ UNCHANGED stream_vars
    /\ UNCHANGED server_vars
    /\ UNCHANGED rechunk_vars

Next ==
    \/ ProcessAssistantOrUser
    \/ ProcessSystem
    \/ ProcessTool
    \/ BuildToolConfig
    \/ ConverseStream

Spec == Init /\ [][Next]_vars

---------------------------------------------------------------------------
(* response/src/lib.rs: chunks, and the translation of a backend event.    *)

\* A variant that repeats the role as the content of the delta.
DeltaEchoingRole(content, role, tool_calls) ==
    [content |-> IF IsSome(role) /\ role.v # "" THEN role ELSE content,
     role |-> role, tool_calls |-> tool_calls]

Delta(content, role, tool_calls) ==
    [content |-> content, role |-> role, tool_calls |-> tool_calls]
EmptyDelta == Delta(NoneVal, NoneVal, NoneVal)

\* ChoiceBuilder::default() with .delta(), .finish_reason(), .index(), .build()
Choice(delta, finish_reason, index) ==
    [delta |-> delta, finish_reason |-> finish_reason, index |-> index,
     logprobs |-> NoneVal]

\* A variant that takes the completion tokens for the prompt tokens.
UsageSwapped(prompt_tokens, completion_tokens, total_tokens) ==
    [prompt_tokens |-> completion_tokens, completion_tokens |-> prompt_tokens,
     total_tokens |-> total_tokens]

\* UsageBuilder ... build()
Usage(prompt_tokens, completion_tokens, total_tokens) ==
    [prompt_tokens |-> prompt_tokens, completion_tokens |-> completion_tokens,
     total_tokens |-> total_tokens]

\* A variant that leaves the input fragment out of the tool call.
tool_use_block_delta_to_tool_call_bare(tool_use_block_delta, index) ==
    [id |-> NoneVal, tool_type |-> "function",
     function |-> Some([name |-> NoneVal, arguments |-> Some("")]),
     index |-> Some(index)]

tool_use_block_delta_to_tool_call(tool_use_block_delta, index) ==
    [id |-> NoneVal, tool_type |-> "function",
     function |-> Some([name |-> NoneVal,
                        arguments |-> Some(tool_use_block_delta.input)]),
     index |-> Some(index)]

\* A variant that numbers the tool calls by their blocks.
tool_use_block_start_to_tool_call_numbered(tool_use_block_start, index) ==
    [id |-> Some(tool_use_block_start.tool_use_id), tool_type |-> "function",
     function |-> Some([name |-> Some(tool_use_block_start.name),
                        arguments |-> Some("")]),
     index |-> Some(IF tool_use_block_start.tool_use_id = "tooluse_2"
                    THEN index + 1 ELSE index)]

tool_use_block_start_to_tool_call(tool_use_block_start, index) ==
    [id |-> Some(tool_use_block_start.tool_use_id), tool_type |-> "function",
     function |-> Some([name |-> Some(tool_use_block_start.name),
                        arguments |-> Some("")]),
     index |-> Some(index)]

\* ChatCompletionsResponse::builder().object(...)
NewBuilder ==
    [choices |-> <<>>, created |-> NoneVal, id |-> NoneVal, model |-> NoneVal,
     object |-> Some("chat.completion.chunk"), usage |-> NoneVal]

BuilderChoice(builder, choice) ==
    [builder EXCEPT !.choices = Append(builder.choices, choice)]

\* A variant that reports a usage of zero tokens for a Metadata event
\* without usage.
EventUsageOrZero(output) ==
    IF output.t = "Metadata"
    THEN IF IsSome(output.usage)
         THEN Some(Usage(output.usage.v.input_tokens, output.usage.v.output_tokens,
                         output.usage.v.total_tokens))
         ELSE Some(Usage(0, 0, 0))
    ELSE NoneVal

\* The usage a Metadata event carries, as the translator reports it.
EventUsage(output) ==
    IF output.t = "Metadata" /\ IsSome(output.usage)
    THEN Some(Usage(output.usage.v.input_tokens, output.usage.v.output_tokens,
                    output.usage.v.total_tokens))
    ELSE NoneVal

\* A variant of the match that knows no reason but "stop".
FinishReasonAlwaysStop(stop_reason) == Some("stop")

\* The match on stop_reason of the MessageStop arm.
FinishReason(stop_reason) ==
    CASE stop_reason = "EndTurn" -> Some("stop")
      [] stop_reason = "ToolUse" -> Some("tool_calls")
      [] stop_reason = "MaxTokens" -> Some("length")
      [] stop_reason = "StopSequence" -> Some("stop")
      [] OTHER -> Some("stop")

\* converse_stream_output_to_chat_completions_response_builder: the builder
\* it returns.  (Its call of usage_callback is the action's, see RecvEvent.)
converse_stream_output_to_chat_completions_response_builder(output) ==
    CASE output.t = "ContentBlockDelta" ->
            LET delta ==
                  IF IsNone(output.delta) THEN NoneVal
                  ELSE CASE output.delta.v.t = "Text" ->
                              Some(Delta(Some(output.delta.v.text), NoneVal, NoneVal))
                         [] output.delta.v.t = "ToolUse" ->
                              Some(Delta(NoneVal, NoneVal,
                                  Some(<<tool_use_block_delta_to_tool_call(output.delta.v, 0)>>)))
                         [] OTHER -> NoneVal
            IN  BuilderChoice(NewBuilder, Choice(delta, NoneVal, 0))
      [] output.t = "ContentBlockStart" ->
            LET delta ==
                  IF IsNone(output.start) THEN NoneVal
                  ELSE IF output.start.v.t = "ToolUse"
                       THEN Some(Delta(NoneVal, NoneVal,
                                Some(<<tool_use_block_start_to_tool_call(output.start.v, 0)>>)))
                       ELSE NoneVal
            IN  BuilderChoice(NewBuilder, Choice(delta, NoneVal, 0))
      [] output.t = "MessageStart" ->
            LET delta ==
                  Some(Delta(IF output.role = "assistant" THEN Some("") ELSE NoneVal,
                             IF output.role = "assistant" THEN Some("assistant") ELSE NoneVal,
                             NoneVal))
            IN  BuilderChoice(NewBuilder, Choice(delta, NoneVal, 0))
      [] output.t = "MessageStop" ->
            BuilderChoice(NewBuilder,
                Choice(Some(EmptyDelta), FinishReason(output.stop_reason), 0))
      [] output.t = "Metadata" ->
            [BuilderChoice(NewBuilder, Choice(Some(EmptyDelta), NoneVal, 0))
                EXCEPT !.usage = EventUsage(output)]
      [] OTHER ->
            BuilderChoice(NewBuilder, Choice(Some(EmptyDelta), NoneVal, 0))

\* A variant of build() that sends a usage-bearing chunk without choices.
ChatCompletionsResponseBuildBareUsage(builder) ==
    IF IsSome(builder.usage) THEN [builder EXCEPT !.choices = <<>>]
    ELSE IF builder.choices = <<>>
         THEN [builder EXCEPT !.choices = <<Choice(Some(EmptyDelta), NoneVal, 0)>>]
         ELSE builder

\* ChatCompletionsResponseBuilder::build: a response always has a choice.
ChatCompletionsResponseBuild(builder) ==
    IF builder.choices = <<>>
    THEN [builder EXCEPT !.choices = <<Choice(Some(EmptyDelta), NoneVal, 0)>>]
    ELSE builder

---------------------------------------------------------------------------
(* chat/src/providers.rs: the Bedrock provider's response stream.          *)

\* The items of the stream: Ok(event) with a serialized response, an error,
\* Ok(event) with the DONE message.
ChunkItem(response) == [t |-> "chunk", response |-> response]
ErrorItem(message) == [t |-> "error", message |-> message]
DONE_MESSAGE == "[DONE]"
DoneItem == [t |-> "done", data |-> DONE_MESSAGE]

\* A variant that draws a fresh id and creation time for every event.
ResponseForPerEvent(output, response_id, response_created) ==
    ChatCompletionsResponseBuild(
        [converse_stream_output_to_chat_completions_response_builder(output)
            EXCEPT !.id = Some(response_id \o "-" \o output.t),
                   !.created = Some(response_created + Len(output.t))])

\* The response the loop builds for one backend event.
ResponseFor(output, response_id, response_created) ==
    ChatCompletionsResponseBuild(
        [converse_stream_output_to_chat_completions_response_builder(output)
            EXCEPT !.id = Some(response_id), !.created = Some(response_created)])

\* A variant that hands the consumer the new item before the earlier ones.
YieldedInFront(items, item) == <<item>> \o items

\* yield: the consumer is handed the item after those it already has.
Yielded(items, item) == Append(items, item)

\* The backend events the model draws from.
TokenUsage(input_tokens, output_tokens, total_tokens) ==
    [input_tokens |-> input_tokens, output_tokens |-> output_tokens,
     total_tokens |-> total_tokens]

Events ==
    {[t |-> "ContentBlockDelta", delta |-> d]
        : d \in {NoneVal,
                 Some([t |-> "Text", text |-> "Hi"]),
                 Some([t |-> "Text", text |-> " there"]),
                 Some([t |-> "ToolUse", input |-> "{\"n\""]),
                 Some([t |-> "ToolUse", input |-> ":1}"]),
                 Some([t |-> "ReasoningContent"])}}
    \cup
    {[t |-> "ContentBlockStart", start |-> st]
        : st \in {NoneVal,
                  Some([t |-> "ToolUse", tool_use_id |-> "tooluse_1", name |-> "fibonacci"]),
                  Some([t |-> "ToolUse", tool_use_id |-> "tooluse_2", name |-> "get_current_time"]),
                  Some([t |-> "Unknown"])}}
    \cup
    {[t |-> "ContentBlockStop"]}
    \cup
    {[t |-> "MessageStart", role |-> r] : r \in {"assistant", "user"}}
    \cup
    {[t |-> "MessageStop", stop_reason |-> r]
        : r \in {"EndTurn", "ToolUse", "MaxTokens", "StopSequence", "ContentFiltered"}}
    \cup
    {[t |-> "Metadata", usage |-> u]
        : u \in {NoneVal, Some(TokenUsage(5, 2, 7)), Some(TokenUsage(1, 0, 1))}}

\* Uuid::new_v4() and Utc::now().timestamp(), as the k-th stream would
\* draw them.
ResponseIds == <<"6f1c", "a2e9">>
Timestamps == <<1700000000, 1700000060>>

\* send() has succeeded: the response id and the creation time are fixed
\* and the stream starts to read the backend.
OpenStream ==
    /\ IsSome(call)
    /\ pc = "idle"
    /\ \E k \in 1..Len(ResponseIds) :
          /\ id' = ResponseIds[k]
          /\ created' = Timestamps[k]
    /\ pc' = "recv"
    /\ UNCHANGED <<received, recv_errors, pending, out, usage_calls>>
    /\ UNCHANGED translation_vars
    /\ UNCHANGED server_vars
    /\ UNCHANGED rechunk_vars

Receptions == Len(received) + recv_errors

\* A variant in which the backend is read whether or not the consumer still
\* takes the stream's items.
RecvEventFromEagerly(events, limit) ==
    /\ pc \in {"recv", "dropped"}
    /\ Receptions < limit
    /\ \E output \in events :
          /\ received' = Append(received, output)
          /\ usage_calls' =
                IF IsSome(EventUsage(output))
                THEN Append(usage_calls, EventUsage(output).v)
                ELSE usage_calls
          /\ pending' = IF pc = "dropped" THEN NoneVal
                        ELSE Some(ChunkItem(ResponseFor(output, id, created)))
    /\ pc' = IF pc = "dropped" THEN "dropped" ELSE "yield"
    /\ UNCHANGED <<id, created, recv_errors, out>>
    /\ UNCHANGED translation_vars
    /\ UNCHANGED server_vars
    /\ UNCHANGED rechunk_vars

\* A variant in which the next event is received while the chunk of the
\* last one is still being yielded.
RecvEventFromAhead(events, limit) ==
    /\ pc \in {"recv", "yield"}
    /\ pc = "yield" => pending.v.t = "chunk"
    /\ Receptions < limit
    /\ \E output \in events :
          /\ received' = Append(received, output)
          /\ usage_calls' =
                IF IsSome(EventUsage(output))
                THEN Append(usage_calls, EventUsage(output).v)
                ELSE usage_calls
          /\ pending' = IF pc = "yield" THEN pending
                        ELSE Some(ChunkItem(ResponseFor(output, id, created)))
    /\ pc' = "yield"
    /\ UNCHANGED <<id, created, recv_errors, out>>
    /\ UNCHANGED translation_vars
    /\ UNCHANGED server_vars
    /\ UNCHANGED rechunk_vars

\* stream.recv() returns Ok(Some(output)), output being one of events: the
\* event is translated, the usage callback is called for a usage it carries,
\* and the chunk is yielded.  limit bounds the receptions of a run.
RecvEventFrom(events, limit) ==
    /\ pc = "recv"
    /\ Receptions < limit
    /\ \E output \in events :
          /\ received' = Append(received, output)
          /\ usage_calls' =
                IF IsSome(EventUsage(output))
                THEN Append(usage_calls, EventUsage(output).v)
                ELSE usage_calls
          /\ pending' = Some(ChunkItem(ResponseFor(output, id, created)))
    /\ pc' = "yield"
    /\ UNCHANGED <<id, created, recv_errors, out>>
    /\ UNCHANGED translation_vars
    /\ UNCHANGED server_vars
    /\ UNCHANGED rechunk_vars

RecvEvent == RecvEventFrom(Events, MaxEvents)

\* stream.recv() returns Err(e): an error item is yielded and the loop
\* goes on.
RecvErrorWithin(limit) ==
    /\ pc = "recv"
    /\ Receptions < limit
    /\ recv_errors' = recv_errors + 1
    /\ pending' = Some(ErrorItem("Stream receive error"))
    /\ pc' = "yield"
    /\ UNCHANGED <<id, created, received, out, usage_calls>>
    /\ UNCHANGED translation_vars
    /\ UNCHANGED server_vars
    /\ UNCHANGED rechunk_vars

RecvError == RecvErrorWithin(MaxEvents)

\* stream.recv() returns Ok(None): the loop ends and DONE is yielded.
RecvEnd ==
    /\ pc = "recv"
    /\ pending' = Some(DoneItem)
    /\ pc' = "yield"
    /\ UNCHANGED <<id, created, received, recv_errors, out, usage_calls>>
    /\ UNCHANGED translation_vars
    /\ UNCHANGED server_vars
    /\ UNCHANGED rechunk_vars

\* The consumer takes the item of a yield inside the loop.
YieldItem ==
    /\ pc = "yield"
    /\ pending.v.t # "done"
    /\ out' = Yielded(out, pending.v)
    /\ pending' = NoneVal
    /\ pc' = "recv"
    /\ UNCHANGED <<id, created, received, recv_errors, usage_calls>>
    /\ UNCHANGED translation_vars
    /\ UNCHANGED server_vars
    /\ UNCHANGED rechunk_vars

\* The consumer takes the item of a yield inside the loop and drops the
\* stream: the generator is never polled again.
StopConsuming ==
    /\ pc = "yield"
    /\ pending.v.t # "done"
    /\ out' = Yielded(out, pending.v)
    /\ pending' = NoneVal
    /\ pc' = "dropped"
    /\ UNCHANGED <<id, created, received, recv_errors, usage_calls>>
    /\ UNCHANGED translation_vars
    /\ UNCHANGED server_vars
    /\ UNCHANGED rechunk_vars

\* A variant in which the loop is resumed after the DONE item.
YieldDoneAndResume ==
    /\ pc = "yield"
    /\ pending.v.t = "done"
    /\ out' = Yielded(out, pending.v)
    /\ pending' = NoneVal
    /\ pc' = "recv"
    /\ UNCHANGED <<id, created, received, recv_errors, usage_calls>>
    /\ UNCHANGED translation_vars
    /\ UNCHANGED server_vars
    /\ UNCHANGED rechunk_vars

\* The consumer takes the DONE item; the stream ends.
YieldDone ==
    /\ pc = "yield"
    /\ pending.v.t = "done"
    /\ out' = Yielded(out, pending.v)
    /\ pending' = NoneVal
    /\ pc' = "end"
    /\ UNCHANGED <<id, created, received, recv_errors, usage_calls>>
    /\ UNCHANGED translation_vars
    /\ UNCHANGED server_vars
    /\ UNCHANGED rechunk_vars

\* The request of the stream's specification: one message of each role.
StreamRequests ==
    {[model |-> "anthropic.claude-3",
      messages |-> <<Message("system", Some(ContentsString("sys")), NoneVal, NoneVal),
                     Message("user", Some(ContentsString("hi")), NoneVal, NoneVal),
                     Message("assistant", Some(ContentsString("hi")),
                             Some(FullCallList), NoneVal),
                     Message("tool", Some(ContentsString("42")), NoneVal,
                             Some("call_1"))>>,
      tools |-> NoneVal, tool_choice |-> NoneVal]}

InitStream ==
    /\ request \in StreamRequests
    /\ i = 0
    /\ system_content_blocks = <<>>
    /\ messages = <<>>
    /\ origin = <<>>
    /\ result = "running"
    /\ error = ""
    /\ tool_config = NoneVal
    /\ call = NoneVal
    /\ pc = "idle"
    /\ id = ""
    /\ created = 0
    /\ received = <<>>
    /\ recv_errors = 0
    /\ pending = NoneVal
    /\ out = <<>>
    /\ usage_calls = <<>>
    /\ hpc = "library"
    /\ status = NoneVal
    /\ body = ""
    /\ sse = <<>>
    /\ upstream = <<>>
    /\ delivered = <<>>
    /\ appended = <<>>
    /\ line_buffer = <<>>

NextStream ==
    \/ ProcessAssistantOrUser
    \/ ProcessSystem
    \/ ProcessTool
    \/ BuildToolConfig
    \/ ConverseStream
    \/ OpenStream
    \/ RecvEvent
    \/ RecvError
    \/ RecvEnd
    \/ YieldItem
    \/ StopConsuming
    \/ YieldDone

\* The whole path of one request, from the translation to the end of the
\* response stream.
SpecStream == InitStream /\ [][NextStream]_vars

\* One conversation of the backend: the assistant's turn starts, says "Hi",
\* stops, and the token usage follows.
Scenario ==
    <<[t |-> "MessageStart", role |-> "assistant"],
      [t |-> "ContentBlockDelta", delta |-> Some([t |-> "Text", text |-> "Hi"])],
      [t |-> "MessageStop", stop_reason |-> "EndTurn"],
      [t |-> "Metadata", usage |-> Some(TokenUsage(5, 2, 7))]>>

ScenarioEvents == {Scenario[k] : k \in 1..Len(Scenario)}

ScenarioRecvEvent == RecvEventFrom(ScenarioEvents, Len(Scenario))
ScenarioRecvError == RecvErrorWithin(Len(Scenario))

NextScenario ==
    \/ ProcessAssistantOrUser
    \/ ProcessSystem
    \/ ProcessTool
    \/ BuildToolConfig
    \/ ConverseStream
    \/ OpenStream
    \/ ScenarioRecvEvent
    \/ ScenarioRecvError
    \/ RecvEnd
    \/ YieldItem
    \/ YieldDone

\* The path of one request whose backend sends the events of the scenario,
\* in any order and number up to the scenario's length.
SpecScenario == InitStream /\ [][NextScenario]_vars

---------------------------------------------------------------------------
(* Properties of the request translation.                                  *)

Translated == result = "ok"
Processed(k) == k <= i
NumMessages == Len(request.messages)

\* The backend messages built from request message k.
BuiltFrom(k) == {j \in 1..Len(messages) : origin[j] = k}

HasToolCalls(m) == IsSome(m.tool_calls) /\ m.tool_calls.v # <<>>
HasText(m) == IsSome(m.contents) /\ ~is_empty(m.contents.v)

\* C1: a request with a Tool-role message that has no tool_call_id is never
\* translated: the loop does not get past that message (it is neither
\* dropped nor converted) and the translation does not succeed.
C1_ToolWithoutIdFails ==
    \A k \in 1..NumMessages :
        (request.messages[k].role = "tool" /\ IsNone(request.messages[k].tool_call_id))
            => ~Processed(k) /\ ~Translated

\* C2: every translated Assistant message with a non-empty tool_calls list
\* has one backend message, whose ToolUse blocks are one per call in input
\* order, after a Text block exactly when the message has non-empty text.
C2_ToolCallsBecomeToolUse ==
    \A k \in 1..NumMessages :
        LET m == request.messages[k] IN
        (Processed(k) /\ m.role = "assistant" /\ HasToolCalls(m)) =>
            \E j \in 1..Len(messages) :
                /\ BuiltFrom(k) = {j}
                /\ LET content == messages[j].content
                       uses == SelectSeq(content, LAMBDA b : b.t = "ToolUse")
                       texts == SelectSeq(content, LAMBDA b : b.t = "Text")
                   IN  /\ Len(uses) = Len(m.tool_calls.v)
                       /\ \A c \in 1..Len(uses) :
                            /\ uses[c].tool_use_id = m.tool_calls.v[c].id
                            /\ uses[c].name = m.tool_calls.v[c].function.name
                       /\ content = texts \o uses
                       /\ (texts # <<>>) <=> HasText(m)

\* The system blocks the first k request messages contribute, in order.
RECURSIVE SystemGroups(_)
SystemGroups(k) ==
    IF k = 0 THEN <<>>
    ELSE LET m == request.messages[k] IN
         SystemGroups(k - 1) \o
            (IF m.role = "system" /\ IsSome(m.contents)
             THEN SystemBlocksOf(m.contents.v, IsSome(request.tools))
             ELSE <<>>)

\* C3: no backend message is built from a System message, and the system
\* blocks are the groups of the System messages consumed so far, one group
\* per message, in request order.
C3_SystemMessagesBecomeSystemBlocks ==
    /\ \A j \in 1..Len(messages) : request.messages[origin[j]].role # "system"
    /\ system_content_blocks = SystemGroups(i)

C3_Witness ==
    /\ Translated
    /\ NumMessages = 2
    /\ request.messages[1].role = "system"
    /\ request.messages[2].role = "system"
    /\ IsSome(request.messages[1].contents)
    /\ IsSome(request.messages[2].contents)
    /\ request.messages[1].contents # request.messages[2].contents
    /\ messages = <<>>
    /\ Len(system_content_blocks) >= 3

\* The blocks the claim gives a System message: one per text.
RECURSIVE PlainSystemGroups(_)
PlainSystemGroups(k) ==
    IF k = 0 THEN <<>>
    ELSE LET m == request.messages[k] IN
         PlainSystemGroups(k - 1) \o
            (IF m.role = "system" /\ IsSome(m.contents)
             THEN (IF m.contents.v.t = "String"
                   THEN <<TextBlock(m.contents.v.s)>>
                   ELSE [b \in 1..Len(m.contents.v.a) |-> TextBlock(m.contents.v.a[b].text)])
             ELSE <<>>)

\* C4: a System message with string content contributes one system block
\* carrying that string and one with N text blocks contributes those N
\* blocks, whether or not the request declares tools.
C4_SystemBlocksCarryTheText ==
    system_content_blocks = PlainSystemGroups(i)

\* The result text of a Tool message's contents.
ResultText(contents) ==
    IF contents.t = "String" THEN contents.s
    ELSE Join([b \in 1..Len(contents.a) |-> contents.a[b].text], " ")

\* C5: every translated Tool message with contents and a tool_call_id has
\* one backend message, of role user, whose content is a ToolResult block
\* with the message's tool_call_id and its result text.
C5_ToolMessageBecomesToolResult ==
    \A k \in 1..NumMessages :
        LET m == request.messages[k] IN
        (Processed(k) /\ m.role = "tool" /\ IsSome(m.contents) /\ IsSome(m.tool_call_id)) =>
            \E j \in 1..Len(messages) :
                /\ BuiltFrom(k) = {j}
                /\ messages[j].role = "user"
                /\ Len(messages[j].content) = 1
                /\ messages[j].content[1].t = "ToolResult"
                /\ messages[j].content[1].tool_use_id = m.tool_call_id.v
                /\ messages[j].content[1].content = <<TextBlock(ResultText(m.contents.v))>>

\* Whether the arguments of a call parse as JSON.
Parses(tool_call) == from_str(tool_call.function.arguments).ok

HasBadCall(m) ==
    /\ m.role = "assistant"
    /\ IsSome(m.tool_calls)
    /\ \E c \in 1..Len(m.tool_calls.v) : ~Parses(m.tool_calls.v[c])

\* The message with every arguments text that does not parse replaced by
\* the text of an empty object.
Repaired(m) ==
    [m EXCEPT !.tool_calls =
        Some([c \in 1..Len(m.tool_calls.v) |->
                IF Parses(m.tool_calls.v[c]) THEN m.tool_calls.v[c]
                ELSE [m.tool_calls.v[c] EXCEPT !.function.arguments = "{}"]])]

ClaimedToolChoice(tc) ==
    IF IsNone(tc) THEN Some([t |-> "Auto"])
    ELSE IF tc.v.t = "Object" THEN Some([t |-> "Tool", name |-> tc.v.function.name])
    ELSE IF tc.v.s = "none" THEN NoneVal
    ELSE IF tc.v.s = "required" THEN Some([t |-> "Any"])
    ELSE Some([t |-> "Auto"])

DeclaresTools == IsSome(request.tools) /\ request.tools.v # <<>>

\* C7: for a request that declares at least one tool, the translation
\* produces a tool configuration that declares every tool, in order, and
\* whose tool choice is decided by tool_choice alone: none for "none", any
\* for "required", the named tool for a function object, auto when absent
\* and for every other string; building it never fails.  For a request
\* without tools it produces no tool configuration.
C7_ToolChoiceMapping ==
    /\ (Translated /\ IsNone(request.tools)) => tool_config = NoneVal
    /\ (Translated /\ DeclaresTools) =>
          /\ IsSome(tool_config)
          /\ Len(tool_config.v.tools) = Len(request.tools.v)
          /\ \A k \in 1..Len(request.tools.v) :
                tool_config.v.tools[k].name = request.tools.v[k].function.name
          /\ tool_config.v.tool_choice = ClaimedToolChoice(request.tool_choice)
    /\ (result = "err" /\ i = NumMessages) => ~DeclaresTools

C7_Witness ==
    /\ Translated
    /\ DeclaresTools
    /\ request.tool_choice = Some(ToolChoiceString("none"))
    /\ IsSome(tool_config)
    /\ tool_config.v.tool_choice = NoneVal
    /\ Len(tool_config.v.tools) = 2

\* C8: when the request declares tools, the backend call carries the model
\* id, the system blocks, the messages and the tool configuration the
\* translation produced.
C8_CallCarriesToolConfig ==
    (IsSome(call) /\ IsSome(request.tools)) =>
        /\ call.v.model_id = request.model
        /\ call.v.system = Some(system_content_blocks)
        /\ call.v.messages = Some(messages)
        /\ call.v.tool_config = tool_config

---------------------------------------------------------------------------
(* Properties of the response stream.                                      *)

Chunks(items) == SelectSeq(items, LAMBDA item : item.t = "chunk")

\* 1 while the chunk of the last received event is being yielded.
ChunkInYield == IF pc = "yield" /\ pending.v.t = "chunk" THEN 1 ELSE 0

\* C9: the stream hands over one chunk per received backend event, and the
\* k-th chunk is the translation of the k-th event: the chunks handed over,
\* with the one being yielded, match the received events one to one and in
\* order.
C9_OneChunkPerEventInOrder ==
    /\ Len(Chunks(out)) + ChunkInYield = Len(received)
    /\ \A k \in 1..Len(Chunks(out)) :
          Chunks(out)[k] = ChunkItem(ResponseFor(received[k], id, created))

C9_Witness ==
    /\ pc = "end"
    /\ Len(received) = 3
    /\ received[1].t = "ContentBlockDelta"
    /\ received[2].t = "Metadata"
    /\ IsSome(received[2].usage)
    /\ received[3].t = "ContentBlockStop"
    /\ Len(Chunks(out)) = 3

\* C10: every chunk of the stream, handed over or being yielded, has at
\* least one choice.
C10_EveryChunkHasAChoice ==
    /\ \A k \in 1..Len(out) :
          out[k].t = "chunk" => Len(out[k].response.choices) >= 1
    /\ (pc = "yield" /\ pending.v.t = "chunk") =>
          Len(pending.v.response.choices) >= 1

C10_Witness ==
    /\ Len(out) >= 2
    /\ \E a, b \in 1..Len(out) :
          /\ out[a].t = "chunk"
          /\ IsSome(out[a].response.usage)
          /\ Len(out[a].response.choices) = 1
          /\ out[b].t = "chunk"
          /\ received[Len(Chunks(SubSeq(out, 1, b)))].t = "ContentBlockStop"
          /\ Len(out[b].response.choices) = 1

---------------------------------------------------------------------------
(* server/src/main.rs and server/src/error.rs: the HTTP handler.           *)

\* Ok(Event::default().data(data)) and Err(e), as items of the SSE stream.
DataEvent(data) == [t |-> "data", data |-> data]
StreamFailure(message) == [t |-> "error", message |-> message]

ModelNames == {"gpt-4o", "claude-3-opus", "anthropic.claude-3"}

\* A variant that finds the prefix anywhere in the text (str::contains).
starts_with_anywhere(text, prefix) ==
    <<text, prefix>> \in {<<"gpt-4o", "gpt-">>, <<"claude-3-opus", "claude-">>,
                          <<"anthropic.claude-3", "claude-">>}

\* str::starts_with, on the model names above.
starts_with(text, prefix) ==
    <<text, prefix>> \in {<<"gpt-4o", "gpt-">>, <<"claude-3-opus", "claude-">>}

\* A variant that answers every error with 500.
StatusCodeAlways500(message) == 500

\* AppError::into_response: the status code and the text of the response.
StatusCodeFor(message) ==
    IF message \in {"Streaming is required but was disabled"}
    THEN 400
    ELSE 500

ErrorBody(message) == "Error: " \o message

\* The messages of the requests the handler is given: one of each role, and
\* a user message without content, whose translation fails.
ServerMessages ==
    {Message("system", Some(ContentsString("sys")), NoneVal, NoneVal),
     Message("user", Some(ContentsString("hi")), NoneVal, NoneVal),
     Message("user", NoneVal, NoneVal, NoneVal),
     Message("assistant", Some(ContentsString("hi")), Some(FullCallList), NoneVal),
     Message("tool", Some(ContentsString("42")), NoneVal, Some("call_1"))}

StreamFlags == {NoneVal, Some(TRUE), Some(FALSE)}

IsServerRequest(r) ==
    \E n \in 0..MaxMsgs :
        \E ms \in [1..n -> ServerMessages], ts \in ToolLists :
            \E name \in ModelNames, flag \in StreamFlags :
                r = [model |-> name, messages |-> ms, tools |-> ts,
                     tool_choice |-> NoneVal, stream |-> flag]

InitServer ==
    /\ IsServerRequest(request)
    /\ i = 0
    /\ system_content_blocks = <<>>
    /\ messages = <<>>
    /\ origin = <<>>
    /\ result = "idle"
    /\ error = ""
    /\ tool_config = NoneVal
    /\ call = NoneVal
    /\ pc = "idle"
    /\ id = ""
    /\ created = 0
    /\ received = <<>>
    /\ recv_errors = 0
    /\ pending = NoneVal
    /\ out = <<>>
    /\ usage_calls = <<>>
    /\ hpc = "handler"
    /\ status = NoneVal
    /\ body = ""
    /\ sse = <<>>
    /\ upstream = <<>>
    /\ delivered = <<>>
    /\ appended = <<>>
    /\ line_buffer = <<>>

\* The handler answers with an error: Err(AppError).
Refuse(message) ==
    /\ status' = Some(StatusCodeFor(message))
    /\ body' = ErrorBody(message)
    /\ hpc' = "responded"
    /\ sse' = sse

\* chat_completions, with process_openai_request or process_bedrock_request:
\* a request with stream = false is refused; otherwise the provider is
\* chosen from the model name and the response, 200 with an SSE stream, is
\* returned before the stream is polled.  OpenAIChatCompletionsProvider::new
\* fails when OPENAI_API_KEY is not set.
chat_completions ==
    /\ hpc = "handler"
    /\ IF request.stream = Some(FALSE)
       THEN Refuse("Streaming is required but was disabled")
       ELSE IF starts_with(request.model, "gpt-") \/ starts_with(request.model, "claude-")
            THEN \E api_key_set \in BOOLEAN :
                    IF api_key_set
                    THEN /\ status' = Some(200)
                         /\ hpc' = "stream"
                         /\ UNCHANGED <<body, sse>>
                    ELSE Refuse("Failed to create OpenAI provider: OPENAI_API_KEY environment variable not set")
            ELSE /\ status' = Some(200)
                 /\ hpc' = "stream"
                 /\ UNCHANGED <<body, sse>>
    /\ UNCHANGED translation_vars
    /\ UNCHANGED stream_vars
    /\ UNCHANGED rechunk_vars

UsesOpenAI == starts_with(request.model, "gpt-") \/ starts_with(request.model, "claude-")

\* The HTTP layer polls the stream: the Bedrock provider's
\* chat_completions_stream is called and starts with the translation.
PollBedrock ==
    /\ hpc = "stream"
    /\ ~UsesOpenAI
    /\ result' = "running"
    /\ hpc' = "provider"
    /\ UNCHANGED <<request, i, system_content_blocks, messages, origin, error,
                   tool_config, call>>
    /\ UNCHANGED stream_vars
    /\ UNCHANGED <<status, body, sse>>
    /\ UNCHANGED rechunk_vars

\* The HTTP layer polls the stream: the OpenAI provider's
\* chat_completions_stream is called; it returns Ok when the upstream
\* answers with success and Err otherwise.
PollOpenAI ==
    /\ hpc = "stream"
    /\ UsesOpenAI
    /\ \E upstream_ok \in BOOLEAN :
          IF upstream_ok
          THEN hpc' = "provider_ok" /\ error' = error
          ELSE hpc' = "provider_err" /\ error' = "OpenAI API error"
    /\ UNCHANGED <<request, i, system_content_blocks, messages, origin, result,
                   tool_config, call>>
    /\ UNCHANGED stream_vars
    /\ UNCHANGED <<status, body, sse>>
    /\ UNCHANGED rechunk_vars

\* The translation has failed: chat_completions_stream returns its error.
TranslationFailed ==
    /\ hpc = "provider"
    /\ result = "err"
    /\ hpc' = "provider_err"
    /\ UNCHANGED translation_vars
    /\ UNCHANGED stream_vars
    /\ UNCHANGED <<status, body, sse>>
    /\ UNCHANGED rechunk_vars

\* The texts of the errors send() can return.
BackendErrors ==
    {"service error: dispatch failure",
     "ThrottlingException: Throttling: rate exceeded",
     "AccessDeniedException: You don't have access to the model",
     "ResourceNotFoundException: The model does not exist"}

\* send() of the ConverseStream call returns: chat_completions_stream
\* returns Ok with its stream, or the error of the call.
SendReturns ==
    /\ hpc = "provider"
    /\ IsSome(call)
    /\ \E outcome \in {Ok("sent")} \cup {Err(text) : text \in BackendErrors} :
          IF outcome.ok
          THEN hpc' = "provider_ok" /\ error' = error
          ELSE hpc' = "provider_err" /\ error' = outcome.e
    /\ UNCHANGED <<request, i, system_content_blocks, messages, origin, result,
                   tool_config, call>>
    /\ UNCHANGED stream_vars
    /\ UNCHANGED <<status, body, sse>>
    /\ UNCHANGED rechunk_vars

\* The Ok(_) arm: the provider's stream is dropped and a placeholder event
\* is yielded.
YieldPlaceholder ==
    /\ hpc = "provider_ok"
    /\ sse' = Append(sse, DataEvent("Stream would be forwarded here"))
    /\ hpc' = "forwarding"
    /\ UNCHANGED translation_vars
    /\ UNCHANGED stream_vars
    /\ UNCHANGED <<status, body>>
    /\ UNCHANGED rechunk_vars

\* The Ok(_) arm, second yield: "[DONE]"; the stream ends.
YieldCompleted ==
    /\ hpc = "forwarding"
    /\ sse' = Append(sse, DataEvent("[DONE]"))
    /\ hpc' = "closed"
    /\ UNCHANGED translation_vars
    /\ UNCHANGED stream_vars
    /\ UNCHANGED <<status, body>>
    /\ UNCHANGED rechunk_vars

\* A variant in which the stream goes on to the Ok(_) arm after the error.
YieldFailureAndGoOn ==
    /\ hpc = "provider_err"
    /\ sse' = Append(sse, StreamFailure(error))
    /\ hpc' = "provider_ok"
    /\ UNCHANGED translation_vars
    /\ UNCHANGED stream_vars
    /\ UNCHANGED <<status, body>>
    /\ UNCHANGED rechunk_vars

\* The Err(e) arm: the error is yielded into the stream; the stream ends.
YieldFailure ==
    /\ hpc = "provider_err"
    /\ sse' = Append(sse, StreamFailure(error))
    /\ hpc' = "closed"
    /\ UNCHANGED translation_vars
    /\ UNCHANGED stream_vars
    /\ UNCHANGED <<status, body>>
    /\ UNCHANGED rechunk_vars

NextServer ==
    \/ chat_completions
    \/ PollBedrock
    \/ PollOpenAI
    \/ ProcessAssistantOrUser
    \/ ProcessSystem
    \/ ProcessTool
    \/ BuildToolConfig
    \/ ConverseStream
    \/ TranslationFailed
    \/ SendReturns
    \/ YieldPlaceholder
    \/ YieldCompleted
    \/ YieldFailure

\* One request through the HTTP handler.
SpecServer == InitServer /\ [][NextServer]_vars

---------------------------------------------------------------------------
(* chat/src/providers.rs: the OpenAI provider's response stream.  A text   *)
(* is the sequence of the fragments the transport can cut it into: a few   *)
(* bytes each, with cuts inside the "data: " prefix, inside a payload and  *)
(* inside a character.  The two bytes of the character e-acute are "C3"    *)
(* and "A9".                                                               *)

MaxLines == 2

DataPrefix == <<"da", "ta: ">>
DonePayload == <<"[DO", "NE]">>
IdXPayload == <<"{\"i", "d\":\"x\"}">>
IdEPayload == <<"{\"id\":\"", "C3", "A9", "\"}">>
BadPayload == <<"{\"i", "d">>
UsagePayload ==
    <<"{\"choices\":[],\"usage\":{\"prompt_tokens\":5,",
      "\"completion_tokens\":2,\"total_tokens\":7}}">>
ChoicesPayload ==
    <<"{\"choices\":[{\"index\":2,\"delta\":{\"role\":\"assistant\",\"content\":\"hi\"}},{\"index\":0,\"delta\":{\"content\":\"yo\"},\"finish_reason\":\"stop\"},{\"index\":1,\"delta\":{},\"finish_reason\":\"length\"},{\"index\":3}]}">>
DoneLine == DataPrefix \o DonePayload

\* The lines the foreign provider sends: data lines with a chunk, with a
\* chunk holding a two-byte character, with a chunk holding usage and no id,
\* with a chunk holding four choices, with the DONE marker (bare, and between white space), with a truncated
\* chunk; a blank line; a comment.
Lines ==
    {DataPrefix \o IdXPayload,
     DataPrefix \o IdEPayload,
     DataPrefix \o UsagePayload,
     DataPrefix \o ChoicesPayload,
     DoneLine,
     <<" ">> \o DoneLine \o <<"\r">>,
     DataPrefix \o BadPayload,
     <<>>,
     <<": ", "keep-alive">>}

RECURSIVE Concat(_)
Concat(texts) ==
    IF texts = <<>> THEN <<>> ELSE Head(texts) \o Concat(Tail(texts))

\* A response body: at most MaxLines lines, each ended by a newline, and
\* possibly a last line that is not.
IsBody(text) ==
    \E n \in 0..MaxLines :
        \E ls \in [1..n -> Lines],
           last \in {<<>>, DoneLine, DataPrefix \o UsagePayload} :
            text = Concat([k \in 1..n |-> ls[k] \o <<"\n">>]) \o last

\* std::str::from_utf8(&chunk).is_ok(): each two-byte character is whole.
from_utf8_ok(chunk) ==
    \A k \in 1..Len(chunk) :
        /\ chunk[k] = "C3" => (k < Len(chunk) /\ chunk[k + 1] = "A9")
        /\ chunk[k] = "A9" => (k > 1 /\ chunk[k - 1] = "C3")

\* str::find('\n'): the position of the first newline, 0 for None.
find_newline(text) ==
    IF \E k \in 1..Len(text) : text[k] = "\n"
    THEN CHOOSE k \in 1..Len(text) :
            text[k] = "\n" /\ \A j \in 1..(k - 1) : text[j] # "\n"
    ELSE 0

WhiteSpace == {" ", "\t", "\r", "\n"}

\* str::trim
RECURSIVE trim(_)
trim(text) ==
    IF text = <<>> THEN text
    ELSE IF Head(text) \in WhiteSpace THEN trim(Tail(text))
    ELSE IF text[Len(text)] \in WhiteSpace
         THEN trim(SubSeq(text, 1, Len(text) - 1))
    ELSE text

\* str::strip_prefix
strip_prefix(text, prefix) ==
    IF Len(text) >= Len(prefix) /\ SubSeq(text, 1, Len(prefix)) = prefix
    THEN Some(SubSeq(text, Len(prefix) + 1, Len(text)))
    ELSE NoneVal

\* An OpenAIStreamingChunk.
OpenAIStreamingChunk(chunk_id, chunk_created, chunk_model, choices, chunk_usage) ==
    [id |-> chunk_id, created |-> chunk_created, model |-> chunk_model,
     choices |-> choices, usage |-> chunk_usage]

\* An OpenAIChoice and an OpenAIDelta.
OpenAIChoice(index, delta, finish_reason) ==
    [index |-> index, delta |-> delta, finish_reason |-> finish_reason]
OpenAIDelta(role, content) == [role |-> role, content |-> content]

\* serde_json::from_str::<OpenAIStreamingChunk>, on the payloads above.
from_str_chunk(data) ==
    CASE data = IdXPayload ->
            Ok(OpenAIStreamingChunk(Some("x"), NoneVal, NoneVal, <<>>, NoneVal))
      [] data = IdEPayload ->
            Ok(OpenAIStreamingChunk(Some("e-acute"), NoneVal, NoneVal, <<>>, NoneVal))
      [] data = UsagePayload ->
            Ok(OpenAIStreamingChunk(NoneVal, NoneVal, NoneVal, <<>>,
                                    Some(Usage(5, 2, 7))))
      [] data = ChoicesPayload ->
            Ok(OpenAIStreamingChunk(NoneVal, NoneVal, NoneVal,
                <<OpenAIChoice(2, Some(OpenAIDelta(Some("assistant"), Some("hi"))),
                               NoneVal),
                  OpenAIChoice(0, Some(OpenAIDelta(NoneVal, Some("yo"))),
                               Some("stop")),
                  OpenAIChoice(1, Some(OpenAIDelta(NoneVal, NoneVal)),
                               Some("length")),
                  OpenAIChoice(3, NoneVal, NoneVal)>>,
                NoneVal))
      [] OTHER -> Err("Failed to parse OpenAI chunk")

\* Option::or
OptionOr(a, b) == IF IsSome(a) THEN a ELSE b

\* ChatCompletionsResponseBuilder::default()
DefaultBuilder ==
    [choices |-> <<>>, created |-> NoneVal, id |-> NoneVal, model |-> NoneVal,
     object |-> NoneVal, usage |-> NoneVal]

\* A variant that prefers the content of a foreign delta to its role.
ReframedDeltaContentFirst(delta) ==
    IF IsNone(delta) THEN NoneVal
    ELSE IF IsSome(delta.v.content) THEN Some(Delta(delta.v.content, NoneVal, NoneVal))
    ELSE IF IsSome(delta.v.role) THEN Some(Delta(NoneVal, delta.v.role, NoneVal))
    ELSE NoneVal

\* The delta made of a foreign choice: its role, else its content, else none.
ReframedDelta(delta) ==
    IF IsNone(delta) THEN NoneVal
    ELSE IF IsSome(delta.v.role) THEN Some(Delta(NoneVal, delta.v.role, NoneVal))
    ELSE IF IsSome(delta.v.content) THEN Some(Delta(delta.v.content, NoneVal, NoneVal))
    ELSE NoneVal

RECURSIVE ReframedChoices(_)
ReframedChoices(choices) ==
    IF choices = <<>> THEN <<>>
    ELSE <<[delta |-> ReframedDelta(Head(choices).delta),
            finish_reason |-> Head(choices).finish_reason,
            index |-> Head(choices).index,
            logprobs |-> NoneVal]>> \o ReframedChoices(Tail(choices))

\* The response made of a parsed chunk.
Reframed(chunk, response_id, response_created, response_model) ==
    ChatCompletionsResponseBuild(
        [DefaultBuilder EXCEPT
            !.id = OptionOr(chunk.id, Some(response_id)),
            !.created = OptionOr(chunk.created, Some(response_created)),
            !.model = OptionOr(chunk.model, Some(response_model)),
            !.choices = ReframedChoices(chunk.choices),
            !.usage = IF IsSome(chunk.usage)
                      THEN Some(Usage(chunk.usage.v.prompt_tokens,
                                      chunk.usage.v.completion_tokens,
                                      chunk.usage.v.total_tokens))
                      ELSE NoneVal])

\* A variant in which the usage callback is called twice for a usage.
YieldsCallingTwice(items, calls) == [items |-> items, calls |-> calls \o calls]

\* What one line of the buffer yields: the items, and the usages the
\* callback is called with.
Yields(items, calls) == [items |-> items, calls |-> calls]

ProcessLine(line, response_id, response_created, response_model) ==
    IF line = <<>> THEN Yields(<<>>, <<>>)
    ELSE IF line = DoneLine THEN Yields(<<DoneItem>>, <<>>)
    ELSE LET data == strip_prefix(line, DataPrefix) IN
         IF IsNone(data) THEN Yields(<<>>, <<>>)
         ELSE LET parsed == from_str_chunk(data.v) IN
              IF parsed.ok
              THEN LET response == Reframed(parsed.v, response_id, response_created,
                                            response_model)
                   IN  Yields(<<ChunkItem(response)>>,
                              IF IsSome(response.usage) THEN <<response.usage.v>>
                              ELSE <<>>)
              ELSE Yields(<<ErrorItem("Failed to parse OpenAI chunk")>>, <<>>)

\* A variant of the loop that is left at a DONE line.
ScanGoesOnUntilDone(line) == line # DoneLine

\* A variant of the loop that is left at a data line that does not parse.
ScanGoesOnUntilFailure(line) ==
    ~(IsSome(strip_prefix(line, DataPrefix)) /\ line # DoneLine
      /\ ~from_str_chunk(strip_prefix(line, DataPrefix).v).ok)

\* Whether the loop over the buffered lines goes on after a line: no arm of
\* its body breaks or returns.
ScanGoesOn(line) == TRUE

\* while let Some(pos) = line_buffer.find('\n') { ... }: the buffer that is
\* left, the items yielded and the usage callback's calls.
RECURSIVE ScanLines(_, _, _, _)
ScanLines(buffer, response_id, response_created, response_model) ==
    LET pos == find_newline(buffer) IN
    IF pos = 0
    THEN [buffer |-> buffer, items |-> <<>>, calls |-> <<>>]
    ELSE LET line == trim(SubSeq(buffer, 1, pos - 1))
             remainder == SubSeq(buffer, pos + 1, Len(buffer))
             now == ProcessLine(line, response_id, response_created, response_model)
         IN  IF ScanGoesOn(line)
             THEN LET later == ScanLines(remainder, response_id, response_created,
                                         response_model)
                  IN  [buffer |-> later.buffer,
                       items |-> now.items \o later.items,
                       calls |-> now.calls \o later.calls]
             ELSE [buffer |-> remainder, items |-> now.items, calls |-> now.calls]

\* A variant that keeps only the newest chunk in the buffer.
push_str_over(buffer, chunk_str) == chunk_str

\* String::push_str
push_str(buffer, chunk_str) == buffer \o chunk_str

\* The request of the passthrough stream.
PassthroughRequests ==
    {[model |-> "gpt-4o",
      messages |-> <<Message("user", Some(ContentsString("hi")), NoneVal, NoneVal)>>,
      tools |-> NoneVal, tool_choice |-> NoneVal]}

\* The foreign provider has answered with success: the stream is built, with
\* the response id, the creation time and the model it captures.
InitRechunk ==
    /\ request \in PassthroughRequests
    /\ i = 0
    /\ system_content_blocks = <<>>
    /\ messages = <<>>
    /\ origin = <<>>
    /\ result = "idle"
    /\ error = ""
    /\ tool_config = NoneVal
    /\ call = NoneVal
    /\ pc = "read"
    /\ id = ResponseIds[1]
    /\ created = Timestamps[1]
    /\ received = <<>>
    /\ recv_errors = 0
    /\ pending = NoneVal
    /\ out = <<>>
    /\ usage_calls = <<>>
    /\ hpc = "library"
    /\ status = NoneVal
    /\ body = ""
    /\ sse = <<>>
    /\ IsBody(upstream)
    /\ delivered = <<>>
    /\ appended = <<>>
    /\ line_buffer = <<>>

\* A variant that reports a chunk that is not valid UTF-8 with an error
\* item.
RecvBytesReportingInvalid ==
    /\ pc = "read"
    /\ \E n \in 1..Len(upstream) :
          LET chunk == SubSeq(upstream, 1, n) IN
          /\ upstream' = SubSeq(upstream, n + 1, Len(upstream))
          /\ delivered' = delivered \o chunk
          /\ IF from_utf8_ok(chunk)
             THEN LET scan == ScanLines(push_str(line_buffer, chunk), id, created,
                                        request.model)
                  IN  /\ appended' = appended \o chunk
                      /\ line_buffer' = scan.buffer
                      /\ out' = out \o scan.items
                      /\ usage_calls' = usage_calls \o scan.calls
             ELSE /\ out' = Append(out, ErrorItem("invalid utf-8"))
                  /\ UNCHANGED <<appended, line_buffer, usage_calls>>
    /\ UNCHANGED <<pc, id, created, received, recv_errors, pending>>
    /\ UNCHANGED translation_vars
    /\ UNCHANGED server_vars

\* bytes_stream.next() returns Some(Ok(chunk)): a chunk of valid UTF-8 is
\* pushed to the buffer and the complete lines of the buffer are processed;
\* any other chunk is skipped.
RecvBytes ==
    /\ pc = "read"
    /\ \E n \in 1..Len(upstream) :
          LET chunk == SubSeq(upstream, 1, n) IN
          /\ upstream' = SubSeq(upstream, n + 1, Len(upstream))
          /\ delivered' = delivered \o chunk
          /\ IF from_utf8_ok(chunk)
             THEN LET scan == ScanLines(push_str(line_buffer, chunk), id, created,
                                        request.model)
                  IN  /\ appended' = appended \o chunk
                      /\ line_buffer' = scan.buffer
                      /\ out' = out \o scan.items
                      /\ usage_calls' = usage_calls \o scan.calls
             ELSE UNCHANGED <<appended, line_buffer, out, usage_calls>>
    /\ UNCHANGED <<pc, id, created, received, recv_errors, pending>>
    /\ UNCHANGED translation_vars
    /\ UNCHANGED server_vars

\* A variant that closes the stream with a "[DONE]" item after the error item.
RecvBytesErrorClosing ==
    /\ pc = "read"
    /\ recv_errors < 1
    /\ recv_errors' = recv_errors + 1
    /\ out' = out \o <<ErrorItem("Stream receive error"), DoneItem>>
    /\ pc' = "end"
    /\ UNCHANGED <<id, created, received, pending, usage_calls>>
    /\ UNCHANGED translation_vars
    /\ UNCHANGED server_vars
    /\ UNCHANGED rechunk_vars

\* bytes_stream.next() returns Some(Err(e)): an error item is yielded and
\* the loop goes on.
RecvBytesError ==
    /\ pc = "read"
    /\ recv_errors < 1
    /\ recv_errors' = recv_errors + 1
    /\ out' = Append(out, ErrorItem("Stream receive error"))
    /\ UNCHANGED <<pc, id, created, received, pending, usage_calls>>
    /\ UNCHANGED translation_vars
    /\ UNCHANGED server_vars
    /\ UNCHANGED rechunk_vars

\* A variant that processes the text left in the buffer as a last line.
RecvBytesEndFlushing ==
    /\ pc = "read"
    /\ upstream = <<>>
    /\ pc' = "end"
    /\ LET scan == ScanLines(push_str(line_buffer, <<"\n">>), id, created,
                             request.model)
       IN  /\ out' = out \o scan.items
           /\ usage_calls' = usage_calls \o scan.calls
           /\ line_buffer' = scan.buffer
    /\ UNCHANGED <<id, created, received, recv_errors, pending>>
    /\ UNCHANGED translation_vars
    /\ UNCHANGED server_vars
    /\ UNCHANGED <<upstream, delivered, appended>>

\* bytes_stream.next() returns None: the stream ends.
RecvBytesEnd ==
    /\ pc = "read"
    /\ upstream = <<>>
    /\ pc' = "end"
    /\ UNCHANGED <<id, created, received, recv_errors, pending, out, usage_calls>>
    /\ UNCHANGED translation_vars
    /\ UNCHANGED server_vars
    /\ UNCHANGED rechunk_vars

NextRechunk ==
    \/ RecvBytes
    \/ RecvBytesError
    \/ RecvBytesEnd

\* The response stream of the OpenAI provider, over every way of cutting
\* the body into byte chunks.
SpecRechunk == InitRechunk /\ [][NextRechunk]_vars

---------------------------------------------------------------------------
(* chat/src/openai.rs: the response stream of the provider that parses a   *)
(* data line directly as a ChatCompletionsResponse.                        *)

\* serde_json::from_str::<ChatCompletionsResponse>, on the payloads above:
\* choices is a required field.
from_str_response(data) ==
    CASE data = UsagePayload ->
            Ok([choices |-> <<>>, created |-> NoneVal, id |-> NoneVal,
                model |-> NoneVal, object |-> NoneVal,
                usage |-> Some(Usage(5, 2, 7))])
      [] data = ChoicesPayload ->
            Ok([choices |->
                    <<Choice(Some(Delta(Some("hi"), Some("assistant"), NoneVal)),
                             NoneVal, 2),
                      Choice(Some(Delta(Some("yo"), NoneVal, NoneVal)),
                             Some("stop"), 0),
                      Choice(Some(EmptyDelta), Some("length"), 1),
                      Choice(NoneVal, NoneVal, 3)>>,
                created |-> NoneVal, id |-> NoneVal, model |-> NoneVal,
                object |-> NoneVal, usage |-> NoneVal])
      [] OTHER -> Err("Failed to parse OpenAI chunk")

\* What one line of the buffer yields: the parsed response goes out as it
\* was parsed.
ProcessLineDirect(line) ==
    IF line = <<>> THEN Yields(<<>>, <<>>)
    ELSE IF line = DoneLine THEN Yields(<<DoneItem>>, <<>>)
    ELSE LET data == strip_prefix(line, DataPrefix) IN
         IF IsNone(data) THEN Yields(<<>>, <<>>)
         ELSE LET parsed == from_str_response(data.v) IN
              IF parsed.ok
              THEN Yields(<<ChunkItem(parsed.v)>>,
                          IF IsSome(parsed.v.usage) THEN <<parsed.v.usage.v>>
                          ELSE <<>>)
              ELSE Yields(<<ErrorItem("Failed to parse OpenAI chunk")>>, <<>>)

\* while let Some(pos) = line_buffer.find('\n') { ... }
RECURSIVE ScanLinesDirect(_)
ScanLinesDirect(buffer) ==
    LET pos == find_newline(buffer) IN
    IF pos = 0
    THEN [buffer |-> buffer, items |-> <<>>, calls |-> <<>>]
    ELSE LET line == trim(SubSeq(buffer, 1, pos - 1))
             now == ProcessLineDirect(line)
             later == ScanLinesDirect(SubSeq(buffer, pos + 1, Len(buffer)))
         IN  [buffer |-> later.buffer,
              items |-> now.items \o later.items,
              calls |-> now.calls \o later.calls]

\* The foreign provider has answered with success: the stream is built; it
\* captures no id, creation time or model.
InitRechunkDirect ==
    /\ request \in PassthroughRequests
    /\ i = 0
    /\ system_content_blocks = <<>>
    /\ messages = <<>>
    /\ origin = <<>>
    /\ result = "idle"
    /\ error = ""
    /\ tool_config = NoneVal
    /\ call = NoneVal
    /\ pc = "read"
    /\ id = ""
    /\ created = 0
    /\ received = <<>>
    /\ recv_errors = 0
    /\ pending = NoneVal
    /\ out = <<>>
    /\ usage_calls = <<>>
    /\ hpc = "library"
    /\ status = NoneVal
    /\ body = ""
    /\ sse = <<>>
    /\ IsBody(upstream)
    /\ delivered = <<>>
    /\ appended = <<>>
    /\ line_buffer = <<>>

\* bytes_stream.next() returns Some(Ok(chunk)).
RecvBytesDirect ==
    /\ pc = "read"
    /\ \E n \in 1..Len(upstream) :
          LET chunk == SubSeq(upstream, 1, n) IN
          /\ upstream' = SubSeq(upstream, n + 1, Len(upstream))
          /\ delivered' = delivered \o chunk
          /\ IF from_utf8_ok(chunk)
             THEN LET scan == ScanLinesDirect(push_str(line_buffer, chunk))
                  IN  /\ appended' = appended \o chunk
                      /\ line_buffer' = scan.buffer
                      /\ out' = out \o scan.items
                      /\ usage_calls' = usage_calls \o scan.calls
             ELSE UNCHANGED <<appended, line_buffer, out, usage_calls>>
    /\ UNCHANGED <<pc, id, created, received, recv_errors, pending>>
    /\ UNCHANGED translation_vars
    /\ UNCHANGED server_vars

NextRechunkDirect ==
    \/ RecvBytesDirect
    \/ RecvBytesError
    \/ RecvBytesEnd

SpecRechunkDirect == InitRechunkDirect /\ [][NextRechunkDirect]_vars

---------------------------------------------------------------------------
(* The stop reasons of a MessageStop event.                                *)

\* The finish_reason stated for each stop reason.
ClaimedFinishReason(stop_reason) ==
    IF stop_reason = "ToolUse" THEN "tool_calls"
    ELSE IF stop_reason = "MaxTokens" THEN "length"
    ELSE "stop"

\* The only choice of the chunk stated for a MessageStop event.
ClaimedStopChoice(stop_reason) ==
    [delta |-> Some([content |-> NoneVal, role |-> NoneVal, tool_calls |-> NoneVal]),
     finish_reason |-> Some(ClaimedFinishReason(stop_reason)),
     index |-> 0, logprobs |-> NoneVal]

\* C11: the chunk of every MessageStop event has one choice, whose
\* finish_reason is "tool_calls" for ToolUse, "length" for MaxTokens and
\* "stop" for EndTurn, StopSequence and every other reason, and whose delta
\* has no content, no role and no tool calls.
C11_StopReasonMapping ==
    \A k \in 1..Len(Chunks(out)) :
        received[k].t = "MessageStop" =>
            Chunks(out)[k].response.choices =
                <<ClaimedStopChoice(received[k].stop_reason)>>

C11_Witness ==
    /\ Len(Chunks(out)) = 3
    /\ received[1] = [t |-> "MessageStop", stop_reason |-> "ToolUse"]
    /\ received[2] = [t |-> "MessageStop", stop_reason |-> "MaxTokens"]
    /\ received[3] = [t |-> "MessageStop", stop_reason |-> "ContentFiltered"]
    /\ Chunks(out)[1].response.choices[1].finish_reason = Some("tool_calls")
    /\ Chunks(out)[3].response.choices[1].finish_reason = Some("stop")

---------------------------------------------------------------------------
(* The usage callback.                                                     *)

BearsUsage(output) == output.t = "Metadata" /\ output.usage.t = "Some"

\* The calls of the usage callback stated for a sequence of backend events.
RECURSIVE ClaimedUsageCalls(_)
ClaimedUsageCalls(events) ==
    IF events = <<>> THEN <<>>
    ELSE LET rest == ClaimedUsageCalls(SubSeq(events, 1, Len(events) - 1))
             last == events[Len(events)]
         IN  IF BearsUsage(last)
             THEN Append(rest, [prompt_tokens |-> last.usage.v.input_tokens,
                                completion_tokens |-> last.usage.v.output_tokens,
                                total_tokens |-> last.usage.v.total_tokens])
             ELSE rest

\* C12: the usage callback has been called once for each received Metadata
\* event that carries usage, in order and with that event's token counts,
\* and for nothing else; the call for an event is made by the time its chunk
\* is being yielded, so before the chunk is handed over.
C12_UsageCallbackOncePerUsage ==
    /\ usage_calls = ClaimedUsageCalls(received)
    /\ Len(usage_calls) = Cardinality({k \in 1..Len(received) : BearsUsage(received[k])})

C12_Witness ==
    /\ pc = "yield"
    /\ Len(received) = 3
    /\ received[1] = [t |-> "Metadata", usage |-> NoneVal]
    /\ received[2] = [t |-> "MessageStop", stop_reason |-> "EndTurn"]
    /\ BearsUsage(received[3])
    /\ pending.v.t = "chunk"
    /\ Len(Chunks(out)) = 2
    /\ usage_calls = <<[prompt_tokens |-> 5, completion_tokens |-> 2, total_tokens |-> 7]>>

---------------------------------------------------------------------------
(* The end of the stream.                                                  *)

IsDone(item) == item.t = "done" /\ item.data = "[DONE]"
Dones(items) == SelectSeq(items, LAMBDA item : item.t = "done")

\* End-of-stream has been reported by the backend: the loop was left, and
\* the DONE item is being yielded or the stream has ended.
EndOfStreamReported == (pc = "yield" /\ pending.v.t = "done") \/ pc = "end"

\* C13: the stream hands over at most one "[DONE]" item; it hands it over
\* only after the backend has reported end-of-stream, as the last item, and
\* a stream that has ended has handed it over.
C13_OneDoneAtTheEnd ==
    /\ Len(Dones(out)) <= 1
    /\ \A k \in 1..Len(out) :
          out[k].t = "done" => /\ IsDone(out[k])
                               /\ k = Len(out)
                               /\ pc = "end"
    /\ ~EndOfStreamReported => Dones(out) = <<>>
    /\ pc = "end" => /\ Len(out) >= 1
                      /\ IsDone(out[Len(out)])

C13_Witness ==
    /\ pc = "end"
    /\ Len(out) = 3
    /\ out[1].t = "chunk"
    /\ out[2].t = "chunk"
    /\ IsDone(out[3])

---------------------------------------------------------------------------
(* A receive error in the middle of the stream.                            *)

Errors(items) == SelectSeq(items, LAMBDA item : item.t = "error")

\* C14: once a receive error has happened the stream awaits nothing more
\* from the backend: it hands over one error item, then "[DONE]", and ends.
\* So at most one error item is handed over, an error item is followed by
\* nothing but "[DONE]", and the loop is not back at recv() after it.
C14_ErrorEndsTheStream ==
    /\ Len(Errors(out)) <= 1
    /\ \A k \in 1..Len(out) :
          out[k].t = "error" =>
              /\ pc # "recv"
              /\ \A j \in (k + 1)..Len(out) : out[j].t = "done"
              /\ pc = "yield" => pending.v.t = "done"

---------------------------------------------------------------------------
(* The scenario MessageStart, "Hi", MessageStop, Metadata.                 *)

ScenarioChunk(choice, chunk_usage) ==
    [t |-> "chunk",
     response |-> [choices |-> <<choice>>, created |-> Some(created),
                   id |-> Some(id), model |-> NoneVal,
                   object |-> Some("chat.completion.chunk"),
                   usage |-> chunk_usage]]

ScenarioChoice(content, role, finish_reason) ==
    [delta |-> Some([content |-> content, role |-> role, tool_calls |-> NoneVal]),
     finish_reason |-> finish_reason, index |-> 0, logprobs |-> NoneVal]

ScenarioUsage == [prompt_tokens |-> 5, completion_tokens |-> 2, total_tokens |-> 7]

\* The stream stated for the scenario.
ScenarioStream ==
    <<ScenarioChunk(ScenarioChoice(Some(""), Some("assistant"), NoneVal), NoneVal),
      ScenarioChunk(ScenarioChoice(Some("Hi"), NoneVal, NoneVal), NoneVal),
      ScenarioChunk(ScenarioChoice(NoneVal, NoneVal, Some("stop")), NoneVal),
      ScenarioChunk(ScenarioChoice(NoneVal, NoneVal, NoneVal), Some(ScenarioUsage)),
      [t |-> "done", data |-> "[DONE]"]>>

ScenarioPlayed == received = Scenario /\ recv_errors = 0

\* C15: when the backend has sent MessageStart(Assistant), the text "Hi",
\* MessageStop(EndTurn) and Metadata with usage 5/2/7 and then reported the
\* end, the stream handed over is the role chunk, the "Hi" chunk, the "stop"
\* chunk, the usage chunk and "[DONE]", in that order and nothing else, and
\* the usage callback was called once, with 5, 2 and 7.
C15_ScenarioStream ==
    /\ (ScenarioPlayed /\ pc = "end") =>
          /\ out = ScenarioStream
          /\ usage_calls = <<ScenarioUsage>>
    /\ (ScenarioPlayed /\ pc # "end") =>
          /\ Len(out) <= 4
          /\ out = SubSeq(ScenarioStream, 1, Len(out))

C15_Witness ==
    /\ ScenarioPlayed
    /\ pc = "end"
    /\ Len(out) = 5
    /\ out[5].t = "done"
    /\ Len(usage_calls) = 1

---------------------------------------------------------------------------
(* The responses of the HTTP handler.                                      *)

\* C16: once the request translation has failed, no backend call has been
\* made, no SSE stream has been opened for the request (the response is
\* not the 200 that carries the stream) and nothing has been handed to the
\* stream; a response that has been sent is an error response.
C16_TranslationFailureIsSynchronous ==
    result = "err" =>
        /\ IsNone(call)
        /\ status # Some(200)
        /\ sse = <<>>
        /\ IsSome(status) => status.v \in {400, 500} /\ body # ""

\* C17: every event handed to the SSE stream of the HTTP response, whichever
\* provider serves the request, is a response chunk or the "[DONE]"
\* payload (a failure of the stream is not an event).
C17_OnlyChunksAndDone ==
    \A k \in 1..Len(sse) :
        \/ sse[k].t = "error"
        \/ sse[k].t = "chunk"
        \/ sse[k].t = "data" /\ sse[k].data = "[DONE]"

---------------------------------------------------------------------------
(* The lines of the passthrough stream.                                    *)

\* The items made from lines, without those of byte-stream receive errors.
FromLines(items) ==
    SelectSeq(items, LAMBDA item : ~(item.t = "error" /\ item.message = "Stream receive error"))

\* Every byte chunk received so far was valid UTF-8 text by itself, so that
\* all of them were pushed to the buffer.
AllChunksWereText == appended = delivered

\* The bytes received, as one chunk into an empty buffer.
InOneChunk == ScanLines(delivered, id, created, request.model)

\* C18, as stated: however the bytes received so far were cut into chunks,
\* the items made from lines and the buffer are those of the same bytes
\* arriving as one chunk.
C18_SplitsDoNotMatter ==
    /\ FromLines(out) = InOneChunk.items
    /\ line_buffer = InOneChunk.buffer

\* C18, amended: when every byte chunk received so far was valid UTF-8 text
\* by itself, the items made from lines and the buffer are those of the
\* same bytes arriving as one chunk, however the bytes were cut.
C18_SplitsOfTextDoNotMatter == AllChunksWereText => C18_SplitsDoNotMatter

\* The first fragment of a split data line has arrived and is buffered, the
\* rest of the line is still to come.
C18_Witness ==
    /\ pc = "read"
    /\ delivered = DataPrefix \o <<"{\"i">>
    /\ line_buffer = delivered
    /\ appended = delivered
    /\ upstream = <<"d\":\"x\"}", "\n">>
    /\ out = <<>>

\* The lines of a text that are ended by a newline, trimmed.
RECURSIVE CompleteLines(_)
CompleteLines(text) ==
    IF \A k \in 1..Len(text) : text[k] # "\n" THEN <<>>
    ELSE LET pos == CHOOSE k \in 1..Len(text) :
                        text[k] = "\n" /\ \A j \in 1..(k - 1) : text[j] # "\n"
         IN  <<trim(SubSeq(text, 1, pos - 1))>>
                 \o CompleteLines(SubSeq(text, pos + 1, Len(text)))

IsDataLine(line) ==
    Len(line) >= 2 /\ line[1] = "da" /\ line[2] = "ta: "

IsDoneMarker(line) == line = <<"da", "ta: ", "[DO", "NE]">>

Count(lines, Test(_)) == Cardinality({k \in 1..Len(lines) : Test(lines[k])})

\* C19: the stream has handed over one "[DONE]" item for each complete line
\* equal to "data: [DONE]" pushed to the buffer, it has handed over an item
\* for every complete data line, those after a DONE line included, and it
\* has ended only if the byte stream has no more bytes.
C19_DoneDoesNotCloseTheStream ==
    /\ Len(Dones(out)) = Count(CompleteLines(appended), IsDoneMarker)
    /\ \A k \in 1..Len(out) : out[k].t = "done" => IsDone(out[k])
    /\ Len(FromLines(out)) = Count(CompleteLines(appended), IsDataLine)
    /\ pc = "end" => upstream = <<>>

C19_Witness ==
    /\ pc = "read"
    /\ Len(out) = 2
    /\ IsDone(out[1])
    /\ out[2].t = "chunk"
    /\ out[2].response.id = Some("x")
    /\ upstream = <<>>

IsBadDataLine(line) ==
    /\ IsDataLine(line)
    /\ ~IsDoneMarker(line)
    /\ SubSeq(line, 3, Len(line)) \notin {IdXPayload, IdEPayload, UsagePayload, ChoicesPayload}

\* The kinds of the items stated for a sequence of lines: an error for a
\* data line that does not parse, "done" for a DONE line, a chunk for any
\* other data line, nothing for the rest.
RECURSIVE ClaimedKinds(_)
ClaimedKinds(lines) ==
    IF lines = <<>> THEN <<>>
    ELSE (IF IsBadDataLine(Head(lines)) THEN <<"error">>
          ELSE IF IsDoneMarker(Head(lines)) THEN <<"done">>
          ELSE IF IsDataLine(Head(lines)) THEN <<"chunk">>
          ELSE <<>>) \o ClaimedKinds(Tail(lines))

Kinds(items) == [k \in 1..Len(items) |-> items[k].t]

\* C20: the items made from lines are, in order, one per complete data line
\* pushed to the buffer: one error item for a data line that does not parse,
\* and the line's own item for every other data line, before and after it.
C20_ParseFailureDoesNotStopTheScan ==
    /\ Kinds(FromLines(out)) = ClaimedKinds(CompleteLines(appended))
    /\ \A k \in 1..Len(FromLines(out)) :
          FromLines(out)[k].t = "error" =>
              FromLines(out)[k].message = "Failed to parse OpenAI chunk"

C20_Witness ==
    /\ Len(out) = 2
    /\ out[1] = [t |-> "error", message |-> "Failed to parse OpenAI chunk"]
    /\ out[2].t = "chunk"
    /\ out[2].response.id = Some("x")
    /\ delivered = DataPrefix \o BadPayload \o <<"\n">> \o DataPrefix \o IdXPayload \o <<"\n">>

---------------------------------------------------------------------------
(* The classification of errors.                                           *)

\* The category stated for an error text, by the first match on its
\* lower-cased form, for the texts of the model.
ClaimedCategory(text) ==
    CASE text = "AccessDeniedException: You don't have access to the model" ->
            "AccessDenied"
      [] text = "ResourceNotFoundException: The model does not exist" ->
            "NotFound"
      [] text = "ThrottlingException: Throttling: rate exceeded" ->
            "Throttled"
      [] OTHER -> "ServerError"

ClaimedCode(text) ==
    CASE ClaimedCategory(text) = "AccessDenied" -> "model_access_error"
      [] ClaimedCategory(text) = "NotFound" -> "model_not_found"
      [] ClaimedCategory(text) = "Throttled" -> "rate_limit_exceeded"
      [] OTHER -> "connection_error"

\* C21: every failure surfaced in the response stream carries the category
\* and the stable code of its text: AccessDenied/model_access_error,
\* NotFound/model_not_found, Throttled/rate_limit_exceeded (so for a
\* connection failure "Throttling: rate exceeded"), ServerError otherwise.
C21_FailuresAreClassified ==
    \A k \in 1..Len(sse) :
        sse[k].t = "error" =>
            sse[k] = [t |-> "error", message |-> sse[k].message,
                      category |-> ClaimedCategory(sse[k].message),
                      code |-> ClaimedCode(sse[k].message)]

---------------------------------------------------------------------------
(* The consumer and the producer of the translated stream.                 *)

\* C22: once the consumer has stopped consuming after a chunk, production
\* has stopped: no step requests a further event from the backend stream
\* (no event and no receive error is added) and none invokes the usage
\* callback again.
C22_NoProductionAfterTheConsumerStops ==
    [][pc = "dropped" =>
          /\ received' = received
          /\ recv_errors' = recv_errors
          /\ usage_calls' = usage_calls]_vars

\* The production the consumer has seen is all there is: the producer is
\* not ahead of a consumer that stopped.
C22_Witness ==
    /\ pc = "dropped"
    /\ Len(out) = 2
    /\ out[2].t = "chunk"
    /\ Len(received) = 2
    /\ Receptions < MaxEvents

\* C23: at most one backend event is in flight: the next event is awaited
\* only when the chunks of all received events have been handed to the
\* consumer and nothing is being yielded, and the chunk being yielded is
\* the full translation of the last received event.
C23_OneEventInFlight ==
    /\ Len(received) - Len(Chunks(out)) \in {0, 1}
    /\ pc = "recv" => /\ pending = NoneVal
                       /\ Len(received) = Len(Chunks(out))
    /\ Len(received) - Len(Chunks(out)) = 1 =>
          /\ pc = "yield"
          /\ pending = Some(ChunkItem(ResponseFor(received[Len(received)],
                                                   id, created)))

C23_Witness ==
    /\ pc = "yield"
    /\ Len(received) = 3
    /\ Len(Chunks(out)) = 2
    /\ pending.v.t = "chunk"
    /\ received[3].t = "ContentBlockDelta"

\* The chunks of the stream, handed over or being yielded.
AllChunks ==
    IF pc = "yield" /\ pending.v.t = "chunk"
    THEN Append(Chunks(out), pending.v)
    ELSE Chunks(out)

\* C24: all chunks of one stream carry the same id and the same created
\* timestamp, those fixed when the stream was opened, whatever the events.
C24_OneIdAndCreatedPerStream ==
    /\ \A k \in 1..Len(AllChunks) :
          /\ AllChunks[k].response.id = Some(id)
          /\ AllChunks[k].response.created = Some(created)
    /\ \A a, b \in 1..Len(AllChunks) :
          /\ AllChunks[a].response.id = AllChunks[b].response.id
          /\ AllChunks[a].response.created = AllChunks[b].response.created
    /\ pc # "idle" => \E k \in 1..Len(ResponseIds) :
                          id = ResponseIds[k] /\ created = Timestamps[k]

C24_Witness ==
    /\ Len(AllChunks) = 3
    /\ received[1].t = "MessageStart"
    /\ received[2].t = "ContentBlockStart"
    /\ received[3].t = "Metadata"
    /\ id = ResponseIds[2]
    /\ AllChunks[1].response.id = Some(ResponseIds[2])
    /\ AllChunks[3].response.created = Some(Timestamps[2])

---------------------------------------------------------------------------
(* The chunks of the passthrough stream.                                   *)

\* C25: every chunk the re-chunker hands over has an id, a created
\* timestamp and a model: those of the foreign chunk where it has them,
\* and otherwise the request id, the creation timestamp and the request
\* model captured when the stream was built.
C25_ChunksHaveIdCreatedAndModel ==
    \A k \in 1..Len(out) :
        out[k].t = "chunk" =>
            /\ IsSome(out[k].response.id)
            /\ IsSome(out[k].response.created)
            /\ IsSome(out[k].response.model)

\* The usage stated for a line: that of a data line whose chunk carries
\* usage, none for any other line.
ClaimedLineUsage(line) ==
    IF line = DataPrefix \o UsagePayload THEN <<Usage(5, 2, 7)>> ELSE <<>>

RECURSIVE ClaimedLineUsages(_)
ClaimedLineUsages(lines) ==
    IF lines = <<>> THEN <<>>
    ELSE ClaimedLineUsage(Head(lines)) \o ClaimedLineUsages(Tail(lines))

\* The usages carried by the chunks of a sequence of items, in order.
RECURSIVE CarriedUsages(_)
CarriedUsages(items) ==
    IF items = <<>> THEN <<>>
    ELSE (IF Head(items).t = "chunk" /\ IsSome(Head(items).response.usage)
          THEN <<Head(items).response.usage.v>>
          ELSE <<>>) \o CarriedUsages(Tail(items))

\* C26: the usage callback has been called once, in order, for each complete
\* data line pushed to the buffer that parses and carries usage, with that
\* usage, and for no other line; the chunks handed over carry the same
\* usages as the calls.
C26_UsageCallbackOncePerUsageLine ==
    /\ usage_calls = ClaimedLineUsages(CompleteLines(appended))
    /\ CarriedUsages(out) = usage_calls

C26_Witness ==
    /\ upstream = <<>>
    /\ Len(out) = 2
    /\ out[1].t = "chunk"
    /\ out[1].response.usage = Some(Usage(5, 2, 7))
    /\ out[2].t = "error"
    /\ out[2].message = "Failed to parse OpenAI chunk"
    /\ usage_calls = <<Usage(5, 2, 7)>>

\* The bytes the step receives.
ChunkOfStep == SubSeq(delivered', Len(delivered) + 1, Len(delivered'))

\* C29: a step that receives a byte chunk that is not valid UTF-8 leaves
\* the line buffer and the text pushed to it unchanged, hands over no item
\* (no event, no error), does not call the usage callback, and leaves the
\* stream reading.
C29_InvalidChunkIsDropped ==
    [][(ChunkOfStep # <<>> /\ ~from_utf8_ok(ChunkOfStep)) =>
          /\ line_buffer' = line_buffer
          /\ appended' = appended
          /\ out' = out
          /\ usage_calls' = usage_calls
          /\ recv_errors' = recv_errors
          /\ pc' = pc]_vars

\* Two chunks were dropped and the line that came after them was processed.
C29_Witness ==
    /\ upstream = <<>>
    /\ appended = DataPrefix \o IdXPayload \o <<"\n">>
    /\ delivered = DataPrefix \o IdEPayload \o <<"\n">> \o appended
    /\ line_buffer = <<>>
    /\ Len(out) = 1
    /\ out[1].t = "chunk"
    /\ out[1].response.id = Some("x")

---------------------------------------------------------------------------
(* A failure of the backend call.                                          *)

\* The provider's call of the backend has failed before a stream was opened.
HandshakeFailed ==
    /\ hpc \in {"provider_err", "closed"}
    /\ error \in BackendErrors \cup {"OpenAI API error"}

\* C27: when the backend call has failed at the handshake, the failure is
\* surfaced exactly once and the response ends with it: the response stream
\* holds nothing until the failure is yielded and the failure alone once it
\* has ended, no backend stream has been opened, no event received and no
\* chunk translated.
C27_HandshakeFailureSurfacedOnce ==
    HandshakeFailed =>
        /\ hpc = "provider_err" => sse = <<>>
        /\ hpc = "closed" => sse = <<StreamFailure(error)>>
        /\ pc = "idle"
        /\ received = <<>>
        /\ recv_errors = 0
        /\ pending = NoneVal
        /\ out = <<>>
        /\ usage_calls = <<>>

C27_Witness ==
    /\ hpc = "closed"
    /\ IsSome(call)
    /\ error = "ThrottlingException: Throttling: rate exceeded"
    /\ sse = <<StreamFailure("ThrottlingException: Throttling: rate exceeded")>>
    /\ status = Some(200)

---------------------------------------------------------------------------
(* The indexes of choices and tool calls.                                  *)

\* C28: every choice of every chunk of the stream has index 0, and every
\* tool call in the delta of a choice has index 0, whatever the events.
C28_EveryIndexIsZero ==
    \A k \in 1..Len(AllChunks) :
        \A c \in 1..Len(AllChunks[k].response.choices) :
            LET choice == AllChunks[k].response.choices[c] IN
            /\ choice.index = 0
            /\ (IsSome(choice.delta) /\ IsSome(choice.delta.v.tool_calls)) =>
                  \A n \in 1..Len(choice.delta.v.tool_calls.v) :
                      choice.delta.v.tool_calls.v[n].index = Some(0)

\* Two tool-use blocks were started and the second one got input.
C28_Witness ==
    /\ Len(Chunks(out)) = 3
    /\ received[1] = [t |-> "ContentBlockStart",
                      start |-> Some([t |-> "ToolUse", tool_use_id |-> "tooluse_1",
                                      name |-> "fibonacci"])]
    /\ received[2] = [t |-> "ContentBlockStart",
                      start |-> Some([t |-> "ToolUse", tool_use_id |-> "tooluse_2",
                                      name |-> "get_current_time"])]
    /\ received[3] = [t |-> "ContentBlockDelta",
                      delta |-> Some([t |-> "ToolUse", input |-> ":1}"])]
    /\ Chunks(out)[1].response.choices[1].delta.v.tool_calls.v[1].id = Some("tooluse_1")
    /\ Chunks(out)[2].response.choices[1].delta.v.tool_calls.v[1].id = Some("tooluse_2")
    /\ Chunks(out)[2].response.choices[1].delta.v.tool_calls.v[1].index = Some(0)
    /\ Chunks(out)[3].response.choices[1].delta.v.tool_calls.v[1].index = Some(0)

---------------------------------------------------------------------------
(* The numbers of tool-call arguments.                                     *)

\* The document stated for a JSON value: an integral number gives an
\* integer chosen by its sign, whatever its size, and only a non-integral
\* number gives a float.
RECURSIVE ClaimedDocument(_)
ClaimedDocument(value) ==
    CASE value.t = "Number" ->
            IF value.k = "Float" THEN JNumber("Float", value.v)
            ELSE IF value.v >= 0 THEN JNumber("PosInt", value.v)
            ELSE JNumber("NegInt", value.v)
      [] value.t = "Array" ->
            JArray([k \in 1..Len(value.a) |-> ClaimedDocument(value.a[k])])
      [] value.t = "Object" ->
            JObject({<<kv[1], ClaimedDocument(kv[2])>> : kv \in value.o})
      [] OTHER -> value

\* C30: the input of every tool-use block built from a call whose arguments
\* parse is the stated document of the parsed value: every integral number
\* is a PosInt or a NegInt by its sign, those above the signed maximum
\* included, and only a non-integral number is a Float.
C30_IntegersBecomeIntegerDocuments ==
    \A j \in 1..Len(messages) :
        \A b \in 1..Len(messages[j].content) :
            messages[j].content[b].t = "ToolUse" =>
                \A c \in 1..Len(request.messages[origin[j]].tool_calls.v) :
                    LET tool_call == request.messages[origin[j]].tool_calls.v[c]
                        parsed == from_str(tool_call.function.arguments)
                    IN  (tool_call.id = messages[j].content[b].tool_use_id
                         /\ parsed.ok) =>
                            messages[j].content[b].input = ClaimedDocument(parsed.v)

---------------------------------------------------------------------------
(* The two copies of the value mapping.                                    *)

---------------------------------------------------------------------------
(* The text of the stream.                                                 *)

IsTextDelta(output) ==
    /\ output.t = "ContentBlockDelta"
    /\ IsSome(output.delta)
    /\ output.delta.v.t = "Text"

\* The backend's text: the texts of the Text deltas, joined in order.
RECURSIVE BackendText(_)
BackendText(events) ==
    IF events = <<>> THEN ""
    ELSE (IF IsTextDelta(Head(events)) THEN Head(events).delta.v.text ELSE "")
             \o BackendText(Tail(events))

\* The content of the deltas of a chunk's choices, joined in order.
RECURSIVE ChoicesContent(_)
ChoicesContent(choices) ==
    IF choices = <<>> THEN ""
    ELSE (IF IsSome(Head(choices).delta) /\ IsSome(Head(choices).delta.v.content)
          THEN Head(choices).delta.v.content.v
          ELSE "") \o ChoicesContent(Tail(choices))

\* The content of the chunks of a sequence of items, joined in order.
RECURSIVE StreamedText(_)
StreamedText(chunks) ==
    IF chunks = <<>> THEN ""
    ELSE ChoicesContent(Head(chunks).response.choices) \o StreamedText(Tail(chunks))

\* C32: the content of the chunks of the stream, joined in order, is the
\* text of the received Text deltas joined in order, and the chunk of any
\* other event has no content or the empty one.
C32_StreamedTextIsTheBackendText ==
    /\ StreamedText(AllChunks) = BackendText(received)
    /\ \A k \in 1..Len(AllChunks) :
          ~IsTextDelta(received[k]) =>
              ChoicesContent(AllChunks[k].response.choices) = ""

C32_Witness ==
    /\ Len(Chunks(out)) = 3
    /\ received[1] = [t |-> "MessageStart", role |-> "assistant"]
    /\ received[2].t = "ContentBlockDelta"
    /\ received[3].t = "ContentBlockDelta"
    /\ StreamedText(Chunks(out)) = "Hi there"
    /\ Chunks(out)[1].response.choices[1].delta.v.content = Some("")

---------------------------------------------------------------------------
(* The tool calls of the stream.                                           *)

IsToolUseStart(output) ==
    /\ output.t = "ContentBlockStart"
    /\ IsSome(output.start)
    /\ output.start.v.t = "ToolUse"

IsToolUseDelta(output) ==
    /\ output.t = "ContentBlockDelta"
    /\ IsSome(output.delta)
    /\ output.delta.v.t = "ToolUse"

\* The tool calls of a chunk's only choice, none when it has no delta or
\* no tool calls.
ToolCallsOf(chunk) ==
    LET choice == chunk.response.choices[1] IN
    IF IsSome(choice.delta) /\ IsSome(choice.delta.v.tool_calls)
    THEN choice.delta.v.tool_calls.v
    ELSE <<>>

\* A delta that carries nothing: none, or one without content, role and
\* tool calls.
CarriesNothing(delta) ==
    IsSome(delta) => /\ IsNone(delta.v.content)
                     /\ IsNone(delta.v.role)
                     /\ IsNone(delta.v.tool_calls)

\* The input fragments of the tool-use deltas, joined in order.
RECURSIVE BackendInput(_)
BackendInput(events) ==
    IF events = <<>> THEN ""
    ELSE (IF IsToolUseDelta(Head(events)) THEN Head(events).delta.v.input ELSE "")
             \o BackendInput(Tail(events))

RECURSIVE JoinedArguments(_)
JoinedArguments(tool_calls) ==
    IF tool_calls = <<>> THEN ""
    ELSE (IF IsSome(Head(tool_calls).function)
             /\ IsSome(Head(tool_calls).function.v.arguments)
          THEN Head(tool_calls).function.v.arguments.v
          ELSE "") \o JoinedArguments(Tail(tool_calls))

\* The arguments of the tool calls of a sequence of chunks, joined in order.
RECURSIVE StreamedArguments(_)
StreamedArguments(chunks) ==
    IF chunks = <<>> THEN ""
    ELSE JoinedArguments(ToolCallsOf(Head(chunks))) \o StreamedArguments(Tail(chunks))

---------------------------------------------------------------------------
(* The messages the request translation leaves out.                        *)

\* An assistant message with tool calls and no content or the empty string.
HasCallsAndNoText(m) ==
    /\ m.role = "assistant"
    /\ IsSome(m.tool_calls)
    /\ (IsNone(m.contents) \/ m.contents = Some(ContentsString("")))

\* C34: an assistant message with tool calls and no content or an
\* empty-string content gives no backend message and no error, and the
\* other assistant and user messages processed give each its own backend
\* message, the conversion of that message alone, in the order of the
\* request.
C34_AssistantWithOnlyCallsIsSkipped ==
    /\ \A k \in 1..Len(request.messages) :
          LET m == request.messages[k] IN
          /\ HasCallsAndNoText(m) =>
                /\ BuiltFrom(k) = {}
                /\ ~(result = "err" /\ i + 1 = k)
          /\ (Processed(k) /\ m.role \in {"assistant", "user"}
                /\ ~HasCallsAndNoText(m)) =>
                \E j \in 1..Len(messages) :
                    /\ BuiltFrom(k) = {j}
                    /\ messages[j] = MessageTryFrom(m).v
    /\ \A a, b \in 1..Len(origin) : a < b => origin[a] < origin[b]

C34_Witness ==
    /\ Translated
    /\ Len(request.messages) = 2
    /\ HasCallsAndNoText(request.messages[1])
    /\ request.messages[1].contents = Some(ContentsString(""))
    /\ request.messages[2].role = "assistant"
    /\ IsSome(request.messages[2].tool_calls)
    /\ Len(messages) = 1
    /\ origin = <<2>>

---------------------------------------------------------------------------
(* The tool results of the request translation.                            *)

\* The result text stated for the contents of a tool message: the string,
\* or the texts of the block list with one space between two of them.
RECURSIVE ClaimedResultText(_)
ClaimedResultText(contents) ==
    IF contents.t = "String" THEN contents.s
    ELSE IF contents.a = <<>> THEN ""
    ELSE IF Len(contents.a) = 1 THEN contents.a[1].text
    ELSE ClaimedResultText(ContentsArray(SubSeq(contents.a, 1, Len(contents.a) - 1)))
            \o " " \o contents.a[Len(contents.a)].text

\* C35: a tool message with contents that has been processed gave exactly
\* one backend message, a user message with the single text block
\* "Function result: " followed by the result text, with or without a
\* tool_call_id; a tool message without contents gave none; and the
\* translation has not failed at a tool message.
C35_ToolResultBecomesUserText ==
    \A k \in 1..Len(request.messages) :
        LET m == request.messages[k] IN
        m.role = "tool" =>
            /\ ~(result = "err" /\ i + 1 = k)
            /\ IsNone(m.contents) => BuiltFrom(k) = {}
            /\ (Processed(k) /\ IsSome(m.contents)) =>
                  \E j \in 1..Len(messages) :
                      /\ BuiltFrom(k) = {j}
                      /\ messages[j] =
                            [role |-> "user",
                             content |-> <<[t |-> "Text",
                                            text |-> "Function result: "
                                                \o ClaimedResultText(m.contents.v)]>>]

C35_Witness ==
    /\ Translated
    /\ Len(request.messages) = 2
    /\ request.messages[1] = Message("tool", Some(TextAB), NoneVal, NoneVal)
    /\ request.messages[2] = Message("tool", NoneVal, NoneVal, Some("call_1"))
    /\ messages = <<[role |-> "user",
                     content |-> <<[t |-> "Text", text |-> "Function result: a b"]>>]>>

---------------------------------------------------------------------------
(* Requests that turn streaming off.                                       *)

\* C36: a request with stream = false is answered with an error of status
\* 400 and nothing else happens for it: no provider is polled, no
\* translation is run, no call is built and no event is handed to an SSE
\* stream; a request with stream absent or true is never answered with 400,
\* and every other error response of the handler has status 500.
C36_StreamFalseIsRefused ==
    /\ request.stream = Some(FALSE) =>
          /\ hpc \in {"handler", "responded"}
          /\ hpc = "responded" =>
                /\ status = Some(400)
                /\ body = "Error: Streaming is required but was disabled"
          /\ sse = <<>>
          /\ result = "idle"
          /\ i = 0
          /\ IsNone(call)
          /\ error = ""
    /\ request.stream # Some(FALSE) =>
          /\ status # Some(400)
          /\ hpc = "responded" => status = Some(500)

C36_Witness ==
    /\ hpc = "responded"
    /\ request.stream = Some(FALSE)
    /\ request.model = "gpt-4o"
    /\ Len(request.messages) = 2
    /\ status = Some(400)

---------------------------------------------------------------------------
(* The choice of the provider.                                             *)

\* The model names that begin with "gpt-" or "claude-".
NamedForOpenAI(name) == name \in {"gpt-4o", "claude-3-opus"}

\* The Bedrock provider has been invoked: its translation has been started.
BedrockInvoked == result # "idle"

\* The OpenAI provider has been invoked: its call has returned without a
\* translation having been started.
OpenAIInvoked ==
    /\ hpc \in {"provider_ok", "provider_err", "forwarding", "closed"}
    /\ result = "idle"

\* C37: the provider is chosen by the model name alone: the OpenAI provider
\* is invoked only for a model that begins with "gpt-" or "claude-", the
\* Bedrock provider only for any other model, never both for one request,
\* and a request whose stream has got past its first poll has invoked
\* exactly the one its name gives.
C37_OneProviderByModelName ==
    /\ OpenAIInvoked => NamedForOpenAI(request.model)
    /\ BedrockInvoked => ~NamedForOpenAI(request.model)
    /\ ~(OpenAIInvoked /\ BedrockInvoked)
    /\ NamedForOpenAI(request.model) => (IsNone(call) /\ i = 0 /\ messages = <<>>)
    /\ hpc \in {"provider", "provider_ok", "provider_err", "forwarding", "closed"} =>
          IF NamedForOpenAI(request.model)
          THEN OpenAIInvoked /\ ~BedrockInvoked
          ELSE BedrockInvoked /\ ~OpenAIInvoked

C37_Witness ==
    /\ hpc = "closed"
    /\ request.model = "claude-3-opus"
    /\ Len(request.messages) = 2
    /\ OpenAIInvoked
    /\ ~BedrockInvoked
    /\ Len(sse) = 2

---------------------------------------------------------------------------
(* The last line of the passthrough stream.                                *)

\* The text after the last newline of a text.
RECURSIVE UnterminatedTail(_)
UnterminatedTail(text) ==
    IF \A k \in 1..Len(text) : text[k] # "\n" THEN text
    ELSE UnterminatedTail(Tail(text))

\* C38: the text pushed to the buffer after its last newline stays in the
\* buffer, and the end of the byte stream discards it: that step hands over
\* no item, calls no usage callback and leaves the buffer as it is, so
\* that every item made from lines comes from a newline-terminated line.
C38_UnterminatedLineIsDiscarded ==
    /\ [](line_buffer = UnterminatedTail(appended))
    /\ [](Len(FromLines(out)) = Count(CompleteLines(appended), IsDataLine))
    /\ [][pc' = "end" =>
             /\ out' = out
             /\ usage_calls' = usage_calls
             /\ recv_errors' = recv_errors
             /\ line_buffer' = line_buffer]_vars

C38_Witness ==
    /\ pc = "end"
    /\ line_buffer = DataPrefix \o UsagePayload
    /\ appended = delivered
    /\ Len(out) = 1
    /\ out[1].t = "chunk"
    /\ out[1].response.id = Some("x")
    /\ usage_calls = <<>>

---------------------------------------------------------------------------
(* The "[DONE]" items of the passthrough stream.                           *)

ReceiveErrors(items) ==
    SelectSeq(items, LAMBDA item : item = ErrorItem("Stream receive error"))

\* C39: the passthrough stream has handed over as many "[DONE]" items as
\* complete "data: [DONE]" lines were received and one error item for each
\* receive error; the step of a receive error adds the error item alone and
\* leaves the stream reading, and the step that ends the stream adds no
\* item.
C39_DoneOnlyForUpstreamDone ==
    /\ [](/\ Len(Dones(out)) = Count(CompleteLines(appended), IsDoneMarker)
          /\ Len(ReceiveErrors(out)) = recv_errors)
    /\ [][recv_errors' # recv_errors =>
             /\ out' = Append(out, ErrorItem("Stream receive error"))
             /\ pc = "read"
             /\ pc' = "read"
             /\ upstream' = upstream]_vars
    /\ [][pc' = "end" /\ pc # "end" => out' = out]_vars

\* An error item between the items of two lines, one read before the
\* receive error and one after it, and no "[DONE]" item at the end of the
\* stream.
C39_Witness ==
    /\ pc = "end"
    /\ recv_errors = 1
    /\ Len(out) = 3
    /\ out[1].t = "chunk"
    /\ out[2] = ErrorItem("Stream receive error")
    /\ out[3].t = "chunk"
    /\ Dones(out) = <<>>

---------------------------------------------------------------------------
(* The choices of a re-framed chunk.                                       *)

\* The complete data lines that hold a chunk, in order.
ChunkLines(lines) ==
    SelectSeq(lines, LAMBDA line :
        IsDataLine(line) /\ ~IsDoneMarker(line) /\ ~IsBadDataLine(line))

\* The chunk items of a sequence of items, in order.
ChunkItems(items) == SelectSeq(items, LAMBDA item : item.t = "chunk")

\* The outgoing choice carries the index and finish_reason of the foreign
\* choice, and of its delta the role, else the content, else nothing.
IsChoiceOf(choice, foreign) ==
    /\ choice.index = foreign.index
    /\ choice.finish_reason = foreign.finish_reason
    /\ IF IsSome(foreign.delta) /\ IsSome(foreign.delta.v.role)
       THEN /\ IsSome(choice.delta)
            /\ choice.delta.v.role = foreign.delta.v.role
            /\ IsNone(choice.delta.v.content)
       ELSE IF IsSome(foreign.delta) /\ IsSome(foreign.delta.v.content)
       THEN /\ IsSome(choice.delta)
            /\ choice.delta.v.content = foreign.delta.v.content
            /\ IsNone(choice.delta.v.role)
       ELSE IsNone(choice.delta)

\* The choices stated for the choices of a foreign chunk.
AreChoicesOf(choices, foreign) ==
    IF foreign = <<>>
    THEN /\ Len(choices) = 1
         /\ choices[1].index = 0
         /\ IsNone(choices[1].finish_reason)
         /\ CarriesNothing(choices[1].delta)
    ELSE /\ Len(choices) = Len(foreign)
         /\ \A k \in 1..Len(foreign) : IsChoiceOf(choices[k], foreign[k])

\* C40: each chunk handed over holds, for the foreign chunk of its line, one
\* choice per foreign choice in the same order, with the same index and
\* finish_reason and with a delta of the role, else of the content, else
\* none; and one empty choice of index 0 for a foreign chunk without
\* choices.
C40_ChoicesAreReframedInOrder ==
    LET lines == ChunkLines(CompleteLines(appended))
        chunks == ChunkItems(out)
    IN  /\ Len(chunks) = Len(lines)
        /\ \A k \in 1..Len(lines) :
              AreChoicesOf(chunks[k].response.choices,
                           from_str_chunk(SubSeq(lines[k], 3, Len(lines[k]))).v.choices)

\* A chunk with the four choices re-framed, after one with an empty choice.
C40_Witness ==
    /\ Len(out) = 2
    /\ out[1] = ChunkItem([choices |-> <<Choice(Some(EmptyDelta), NoneVal, 0)>>,
                           created |-> Some(created), id |-> Some("x"),
                           model |-> Some(request.model), object |-> NoneVal,
                           usage |-> NoneVal])
    /\ out[2].t = "chunk"
    /\ out[2].response.choices =
          <<Choice(Some(Delta(NoneVal, Some("assistant"), NoneVal)), NoneVal, 2),
            Choice(Some(Delta(Some("yo"), NoneVal, NoneVal)), Some("stop"), 0),
            Choice(NoneVal, Some("length"), 1),
            Choice(NoneVal, NoneVal, 3)>>


====
